---- MODULE Spec2Model ----
(***************************************************************************)
(* Nordic legacy DFU engine of drone_updater/dfu_lib.py: parse_zip, the    *)
(* notification handler, the response wait, jump_to_bootloader and          *)
(* perform_update with its retry loop and the chunked transfer loop, as a   *)
(* state machine whose steps are the suspension points (awaits) of the      *)
(* coroutine; and the bootloader discovery of the two front ends.           *)
(***************************************************************************)
EXTENDS Integers, Sequences, FiniteSets, TLC

(* ------------------------------ bounds ---------------------------------- *)
MaxRetries == 3      \* max_retries is drawn from 0..MaxRetries
MaxQueue == 2        \* unconsumed response frames the device may have in flight
MaxPrn == 1          \* prn is drawn from 0..MaxPrn
MaxImageLen == 21    \* length of the application image (two chunks at MTU 23)
MaxStreamLen == 90   \* image lengths 0..MaxStreamLen when the transfer loop runs alone
MaxStreamPrn == 3    \* prn is drawn from 0..MaxStreamPrn when the transfer loop runs alone
MaxScan == 2         \* devices one discovery scan reports
MaxEntries == 3      \* entries of a firmware archive

(* --------------------------- program constants -------------------------- *)
OP_CODE_START_DFU == 1
OP_CODE_INIT_DFU_PARAMS == 2
OP_CODE_RECEIVE_FIRMWARE_IMAGE == 3
OP_CODE_VALIDATE == 4
OP_CODE_ACTIVATE_AND_RESET == 5
OP_CODE_RESET == 6
OP_CODE_PACKET_RECEIPT_NOTIF_REQ == 8
OP_CODE_RESPONSE_CODE == 16
OP_CODE_PACKET_RECEIPT_NOTIF == 17
OP_CODE_ENTER_BOOTLOADER == 1
UPLOAD_MODE_APPLICATION == 4
MaxChunk == 244
AttOverhead == 3
ProgressEvery == 2000

(* ------------------------------ inputs ---------------------------------- *)
\* the bytes of an application image of length n (byte k is k mod 256)
Image(n) == [k \in 1..n |-> k % 256]
ImageLens == {MaxImageLen}
DatData == <<170, 187>>
\* negotiated MTU values a connection may report: the BLE default, a slightly
\* larger one, the one that gives exactly 244 bytes, and the BLE maximum
MTUs == {23, 26, 247, 517}
\* values of max_retries: none, a single attempt, and the largest
RetryChoices == {0, 1, MaxRetries}
\* status bytes a device may put in a response: 1 = success, 6 = operation failed
Statuses == {1, 6}
RespOps == {OP_CODE_START_DFU, OP_CODE_INIT_DFU_PARAMS,
            OP_CODE_RECEIVE_FIRMWARE_IMAGE, OP_CODE_VALIDATE}
\* notification frames the peripheral may send
Frames ==
    {<<OP_CODE_RESPONSE_CODE, o, s>> : o \in RespOps, s \in Statuses}
    \cup {<<OP_CODE_PACKET_RECEIPT_NOTIF, 20, 0, 0, 0>>, <<OP_CODE_PACKET_RECEIPT_NOTIF>>}
    \cup {<<32, 1, 1>>, <<OP_CODE_RESPONSE_CODE, 1>>}

VARIABLES
    pc,                 \* position of the perform_update coroutine
    max_retries,        \* argument of perform_update
    attempt,            \* loop variable of the retry loop (0-based)
    prn,                \* self.prn
    bin_data,           \* self.bin_data
    dat_data,           \* self.dat_data
    connected,          \* the BleakClient context of the attempt is entered
    link,               \* radio link of the attempt's connection: "none", "up", "dropped", "closed"
    subscribed,         \* start_notify succeeded on that connection
    response_queue,     \* self.response_queue: pairs <<request_op, status>>
    pkg_receipt_event,  \* self.pkg_receipt_event
    reset_in_progress,  \* self.reset_in_progress
    bytes_sent,         \* self.bytes_sent
    status,             \* local `status` of perform_update
    i,                  \* loop variable of _stream_firmware
    chunk_size,         \* local of _stream_firmware
    packets_since_prn,  \* local of _stream_firmware
    exc,                \* the exception in flight / bound by `except ... as e`
    result,             \* how perform_update ended: "none", "returned", "raised"
    raised,             \* the exception perform_update raised
    trace,              \* writes and waits of the current attempt, in order
    connects,           \* BleakClient contexts entered (connection attempts)
    backoffs,           \* asyncio.sleep(3.0) calls of the retry loop
    progress_callback,  \* self.progress_callback is set (not None)
    progress,           \* the calls of the progress callback, in order: the
                        \* percentage passed and the attempt that passed it
    cancel_requested,   \* the caller has cancelled the task running perform_update
    front,              \* the front end that runs the update: "cli" or "gui"
    loc_pc,             \* position of the front end between the jump and the update
    app_address,        \* app_device.address, a string (sequence of characters)
    force_scan,         \* the force_scan argument the front end passes
    scanned_devices,    \* result of the last scanner.discover(), in dict order
    bootloader_device,  \* local bootloader_device of the front end
    searches,           \* the calls of find_device_by_name_or_address so far
    loc_error,          \* the message of the exception the front end raised
    update_invoked,     \* dfu.perform_update(bootloader_device) was called
    queue_conn,         \* for each entry of response_queue, the connection that
                        \* delivered it: 0 for the connection of
                        \* jump_to_bootloader, k for the k-th of perform_update
    wait_timeout,       \* the timeout argument of the running or last
                        \* _wait_for_response, in milliseconds
    zip_file,           \* the entries of the archive at self.zip_path, in order
    manifest,           \* self.manifest
    parse_result,       \* how parse_zip ended: "none", "returned", or the type
                        \* of the exception it raised
    jump_result         \* how jump_to_bootloader ended: "none", "returned", "raised"

vars == <<pc, max_retries, attempt, prn, bin_data, dat_data, connected, link,
          subscribed, response_queue, queue_conn, pkg_receipt_event, reset_in_progress,
          bytes_sent, status, wait_timeout, i, chunk_size, packets_since_prn, exc, result,
          raised, trace, connects, backoffs, progress_callback, progress,
          cancel_requested, front, loc_pc, app_address, force_scan,
          scanned_devices, bootloader_device, searches, loc_error,
          update_invoked, zip_file, manifest, parse_result, jump_result>>

params == <<max_retries, prn, bin_data, dat_data, progress_callback>>
streamv == <<bytes_sent, i, chunk_size, packets_since_prn, progress>>
counters == <<connects, backoffs>>
locator == <<front, loc_pc, app_address, force_scan, scanned_devices,
             bootloader_device, searches, loc_error, update_invoked>>
caller == <<cancel_requested, locator, zip_file, manifest, parse_result, jump_result>>

NoExc == [type |-> "none", msg |-> "none", attempt |-> -1]
CancelledError == [type |-> "CancelledError", msg |-> "cancelled", attempt |-> attempt]
DfuException(m) == [type |-> "DfuException", msg |-> m, attempt |-> attempt]
BleakError(m) == [type |-> "BleakError", msg |-> m, attempt |-> attempt]

Min(a, b) == IF a < b THEN a ELSE b
LE16(n) == <<n % 256, (n \div 256) % 256>>
LE32(n) == <<n % 256, (n \div 256) % 256, (n \div 65536) % 256, (n \div 16777216) % 256>>

\* events of the trace: a characteristic write (res = 1 when it completed, 0
\* when it raised), a response wait (res = the returned status; got = "echo"
\* when a response with the awaited opcode was taken, "other" when one with
\* another opcode was taken, "none" on timeout; data carries the accepted
\* response when the wait returned success), a receipt wait
WriteEv(ch, data, ok) ==
    [kind |-> "write", ch |-> ch, data |-> data, res |-> IF ok THEN 1 ELSE 0, got |-> "-"]
WaitEv(expected, resp, st) ==
    [kind |-> "wait", ch |-> "cp",
     data |-> IF st = 1 THEN <<expected>> \o resp ELSE <<expected>>,
     res |-> st,
     got |-> IF resp = <<>> THEN "none" ELSE IF resp[1] = expected THEN "echo" ELSE "other"]
PrnEv(got) ==
    [kind |-> "prn", ch |-> "cp", data |-> <<>>, res |-> IF got THEN 1 ELSE 0, got |-> "-"]

(* ------------------------- strings and devices --------------------------- *)
\* strings the code compares character by character are sequences of
\* one-character strings
LowerCase == <<"a", "b", "c", "d", "e", "f", "g", "h", "i", "j", "k", "l", "m", "n", "o", "p", "q", "r", "s", "t", "u", "v", "w", "x", "y", "z">>
UpperCase == <<"A", "B", "C", "D", "E", "F", "G", "H", "I", "J", "K", "L", "M", "N", "O", "P", "Q", "R", "S", "T", "U", "V", "W", "X", "Y", "Z">>
\* str.upper() and str.lower()
UpperChar(c) ==
    IF \E k \in 1..26 : LowerCase[k] = c
    THEN UpperCase[CHOOSE k \in 1..26 : LowerCase[k] = c]
    ELSE c
LowerChar(c) ==
    IF \E k \in 1..26 : UpperCase[k] = c
    THEN LowerCase[CHOOSE k \in 1..26 : UpperCase[k] = c]
    ELSE c
Upper(str) == [k \in 1..Len(str) |-> UpperChar(str[k])]
Lower(str) == [k \in 1..Len(str) |-> LowerChar(str[k])]

DFU_SERVICE_UUID == <<"0", "0", "0", "0", "1", "5", "3", "0", "-", "1", "2", "1", "2", "-", "e", "f", "d", "e", "-", "1", "5", "2", "3", "-", "7", "8", "5", "f", "e", "a", "b", "c", "d", "1", "2", "3">>
DfuName == <<"D", "F", "U">>
NoUuid == <<>>

\* a BLEDevice with its advertisement; NoDevice stands for None
Device(address, local_name, name, service_uuids) ==
    [address |-> address, local_name |-> local_name, name |-> name,
     service_uuids |-> service_uuids]
NoDevice == Device(<<>>, <<>>, <<>>, <<>>)

\* the front end is not between jump and update: perform_update was called on
\* a device directly
LocatorDone ==
    /\ front = "none"
    /\ loc_pc = "off"
    /\ app_address = <<>>
    /\ force_scan = TRUE
    /\ scanned_devices = <<>>
    /\ bootloader_device = NoDevice
    /\ searches = <<>>
    /\ loc_error = "none"
    /\ update_invoked = FALSE

(* -------------------------------- parse_zip ------------------------------- *)
\* str.endswith(suffix) and `sub in str`
EndsWith(str, suffix) ==
    /\ Len(str) >= Len(suffix)
    /\ SubSeq(str, Len(str) - Len(suffix) + 1, Len(str)) = suffix
Contains(str, sub) ==
    \E k \in 0..(Len(str) - Len(sub)) : SubSeq(str, k + 1, k + Len(sub)) = sub

ManifestName == <<"m", "a", "n", "i", "f", "e", "s", "t", ".", "j", "s", "o", "n">>
BinSuffix == <<".", "b", "i", "n">>
DatSuffix == <<".", "d", "a", "t">>
ApplicationMarker == <<"a", "p", "p", "l", "i", "c", "a", "t", "i", "o", "n">>

\* values json.load returns: a dict (a record of its keys), a str, None
Dict(f) == [t |-> "dict", v |-> f]
Str(str) == [t |-> "str", v |-> str]
None == [t |-> "null", v |-> <<>>]
\* content that is not a JSON document: json.load raises JSONDecodeError
NotJson == [t |-> "error", v |-> <<>>]
\* self.bin_data = None
Unset == <<-1>>

\* an archive is the sequence of its entries in namelist() order; an entry has
\* its bytes and the value json.load makes of them
Entry(name, data, json) == [name |-> name, data |-> data, json |-> json]
HasEntry(z, name) == \E k \in 1..Len(z) : z[k].name = name
\* the entry z.read(name) and z.open(name) find, for a name the archive has
EntryNamed(z, name) == z[CHOOSE k \in 1..Len(z) : z[k].name = name]

\* value[key] succeeds on a dict that has the key; on a dict without it the
\* subscript raises KeyError, on a str or None TypeError
SubscriptError(val, key) ==
    IF val.t # "dict" THEN "TypeError"
    ELSE IF key \notin DOMAIN val.v THEN "KeyError"
    ELSE "none"

\* z.read(name) raises KeyError unless name is the name of an entry
ReadError(z, name) ==
    IF name.t = "str" /\ HasEntry(z, name.v) THEN "none" ELSE "KeyError"

ParseOutcome(m, bin, dat, res) == [manifest |-> m, bin_data |-> bin, dat_data |-> dat, result |-> res]

\* the branch of parse_zip for an archive with manifest.json, m being what
\* json.load returned (a dict or None at each level): `key in value` raises
\* TypeError on None; the fields are assigned in program order, so an
\* exception leaves the earlier assignments in place
ParseManifest(z, m) ==
    IF m = NotJson THEN ParseOutcome(None, Unset, Unset, "JSONDecodeError")
    ELSE IF m.t = "null" THEN ParseOutcome(m, Unset, Unset, "TypeError")
    ELSE IF "manifest" \notin DOMAIN m.v THEN ParseOutcome(m, Unset, Unset, "DfuException")
    ELSE LET mm == m.v["manifest"] IN
    IF mm.t = "null" THEN ParseOutcome(m, Unset, Unset, "TypeError")
    ELSE IF "application" \notin DOMAIN mm.v THEN ParseOutcome(m, Unset, Unset, "DfuException")
    ELSE LET app_info == mm.v["application"] IN
    IF SubscriptError(app_info, "bin_file") # "none"
    THEN ParseOutcome(m, Unset, Unset, SubscriptError(app_info, "bin_file"))
    ELSE IF ReadError(z, app_info.v["bin_file"]) # "none"
    THEN ParseOutcome(m, Unset, Unset, "KeyError")
    ELSE LET bin == EntryNamed(z, app_info.v["bin_file"].v).data IN
    IF SubscriptError(app_info, "dat_file") # "none"
    THEN ParseOutcome(m, bin, Unset, SubscriptError(app_info, "dat_file"))
    ELSE IF ReadError(z, app_info.v["dat_file"]) # "none"
    THEN ParseOutcome(m, bin, Unset, "KeyError")
    ELSE ParseOutcome(m, bin, EntryNamed(z, app_info.v["dat_file"].v).data, "returned")

\* f.endswith(suffix) and 'application' in f.lower()
LegacyMatch(f, suffix) == EndsWith(f, suffix) /\ Contains(Lower(f), ApplicationMarker)

\* next((f for f in files if ...), None): the first matching entry of the
\* archive from position k on, 0 for None
RECURSIVE FirstName(_, _, _)
FirstName(z, k, suffix) ==
    IF k > Len(z) THEN 0
    ELSE IF LegacyMatch(z[k].name, suffix) THEN k
    ELSE FirstName(z, k + 1, suffix)

\* the branch of parse_zip for an archive without manifest.json
ParseLegacy(z) ==
    LET bin_file == FirstName(z, 1, BinSuffix)
        dat_file == FirstName(z, 1, DatSuffix)
    IN  IF bin_file # 0 /\ dat_file # 0
        THEN ParseOutcome(None, z[bin_file].data, z[dat_file].data, "returned")
        ELSE ParseOutcome(None, Unset, Unset, "DfuException")

\* what parse_zip leaves in self.manifest, self.bin_data and self.dat_data and
\* how it ends, for an existing zip file with entries z
ParseZipOutcome(z) ==
    IF HasEntry(z, ManifestName)
    THEN ParseManifest(z, EntryNamed(z, ManifestName).json)
    ELSE ParseLegacy(z)

\* dfu.parse_zip(), called once on the new engine
ParseZip ==
    /\ parse_result = "none"
    /\ manifest' = ParseZipOutcome(zip_file).manifest
    /\ bin_data' = ParseZipOutcome(zip_file).bin_data
    /\ dat_data' = ParseZipOutcome(zip_file).dat_data
    /\ parse_result' = ParseZipOutcome(zip_file).result
    /\ UNCHANGED <<pc, max_retries, prn, progress_callback, attempt, connected, link,
                   subscribed, response_queue, queue_conn, pkg_receipt_event,
                   reset_in_progress, streamv, status, wait_timeout, exc, result,
                   raised, trace, counters, cancel_requested, locator, zip_file,
                   jump_result>>

\* the engine after NordicLegacyDFU(zip_path, prn=p, progress_callback=cb if
\* any), with the max_retries its perform_update will be given
NewEngine(mr, p, cb) ==
    /\ pc = "idle"
    /\ max_retries = mr
    /\ attempt = 0
    /\ prn = p
    /\ connected = FALSE
    /\ link = "none"
    /\ subscribed = FALSE
    /\ response_queue = <<>>
    /\ pkg_receipt_event = FALSE
    /\ reset_in_progress = FALSE
    /\ bytes_sent = 0
    /\ status = 0
    /\ i = 0
    /\ chunk_size = 0
    /\ packets_since_prn = 0
    /\ exc = NoExc
    /\ result = "none"
    /\ raised = NoExc
    /\ trace = <<>>
    /\ connects = 0
    /\ backoffs = 0
    /\ progress_callback = cb
    /\ progress = <<>>
    /\ cancel_requested = FALSE
    /\ queue_conn = <<>>
    /\ wait_timeout = 0

\* the state after construction and parse_zip of an archive with the two
\* application files and no manifest, before perform_update(device,
\* max_retries) is called on an engine built with prn p and, if cb, a progress
\* callback
Constructed(mr, p, cb) ==
    /\ NewEngine(mr, p, cb)
    /\ bin_data \in {Image(n) : n \in ImageLens}
    /\ dat_data = DatData
    /\ zip_file = <<Entry(ApplicationMarker \o BinSuffix, bin_data, NotJson),
                    Entry(ApplicationMarker \o DatSuffix, dat_data, NotJson)>>
    /\ manifest = None
    /\ parse_result = "returned"
    /\ jump_result = "none"

\* every retry choice and receipt interval, no progress callback (the default)
Init ==
    /\ \E mr \in RetryChoices, p \in 0..MaxPrn : Constructed(mr, p, FALSE)
    /\ LocatorDone

(* ----------------------- _notification_handler --------------------------- *)
\* mutant: the response is put at the front of the queue
QueueAfterFramePrepend(q, data) ==
    IF data[1] = OP_CODE_RESPONSE_CODE /\ Len(data) >= 3
    THEN <<(<<data[2], data[3]>>)>> \o q
    ELSE q

\* the response queue after the handler ran on `data` (a truncated response
\* frame raises IndexError inside the callback before anything is queued)
QueueAfterFrame(q, data) ==
    IF data[1] = OP_CODE_RESPONSE_CODE /\ Len(data) >= 3
    THEN Append(q, <<data[2], data[3]>>)
    ELSE q

\* the receipt event after the handler ran on `data`
EventAfterFrame(ev, data) ==
    IF data[1] # OP_CODE_RESPONSE_CODE /\ data[1] = OP_CODE_PACKET_RECEIPT_NOTIF
    THEN TRUE
    ELSE ev

\* a notification is delivered on the subscribed connection; the handler runs
\* to completion (Queue.put on an unbounded queue never suspends)
NotificationHandler(data) ==
    /\ connected /\ subscribed /\ link = "up"
    /\ Len(QueueAfterFrame(response_queue, data)) <= MaxQueue
    /\ response_queue' = QueueAfterFrame(response_queue, data)
    /\ queue_conn' = IF Len(response_queue') > Len(response_queue)
                      THEN Append(queue_conn, connects)
                      ELSE queue_conn
    /\ pkg_receipt_event' = EventAfterFrame(pkg_receipt_event, data)
    /\ UNCHANGED <<pc, params, caller, attempt, connected, link, subscribed,
                   reset_in_progress, streamv, status, wait_timeout, exc, result, raised,
                   trace, counters>>

\* the radio link of the open connection drops
LinkDrop ==
    /\ connected /\ link = "up"
    /\ link' = "dropped"
    /\ UNCHANGED <<pc, params, caller, attempt, connected, subscribed, response_queue, queue_conn,
                   pkg_receipt_event, reset_in_progress, streamv, status, wait_timeout, exc,
                   result, raised, trace, counters>>

(* -------------------------- _wait_for_response --------------------------- *)
\* mutant: the echoed opcode is not compared
ResponseStatusAnyOp(resp, expected_op_code) ==
    IF resp[2] # 1 THEN resp[2] ELSE 1

\* return value of _wait_for_response when the queue yields `resp`
ResponseStatus(resp, expected_op_code) ==
    IF resp[1] # expected_op_code THEN -1
    ELSE IF resp[2] # 1 THEN resp[2]
    ELSE 1

\* async def _wait_for_response(self, expected_op_code, timeout=30.0)
DefaultTimeout == 30000

\* except asyncio.TimeoutError: return -1
TimeoutStatus == -1

\* mutant: a wait that times out reports success
WaitStatusTimeoutPasses(q, expected_op_code) ==
    IF q = <<>> THEN 1 ELSE ResponseStatus(Head(q), expected_op_code)

\* return value of _wait_for_response when the queue is q at the end of the
\* wait: empty on timeout, else its head is what get() returned
WaitStatus(q, expected_op_code) ==
    IF q = <<>> THEN TimeoutStatus ELSE ResponseStatus(Head(q), expected_op_code)

(* ----------------------------- perform_update ---------------------------- *)
\* an exception leaves the `async with` body: the context manager exits next
RaiseInside(e) ==
    /\ exc' = e
    /\ pc' = "aexit"


\* await client.write_gatt_char(ch, data): completes and control moves to
\* `next`, or raises (always, once the link is down)
WriteChar(ch, data, next) ==
    /\ \/ /\ link = "up"
          /\ trace' = Append(trace, WriteEv(ch, data, TRUE))
          /\ pc' = next
          /\ exc' = exc
       \/ /\ trace' = Append(trace, WriteEv(ch, data, FALSE))
          /\ RaiseInside(BleakError("write"))

\* mutant: only the -1 of a timeout or wrong opcode counts as failure
SucceededNotMinusOne(st) == st # -1

\* if status != 1: ... (the failure branch is skipped)
Succeeded(st) == st = 1

\* mutant: no failure branch writes RESET
ResetNever(expected) == FALSE

\* mutant: every failure branch writes RESET
ResetAlways(expected) == TRUE

\* only the failure branch of the START wait writes RESET before raising
ResetOnFailure(expected) == expected = OP_CODE_START_DFU

\* mutant: the response is not awaited, the next step follows at once
WaitForResponseSkipped(expected, timeout, next, msg) ==
    /\ pc' = next
    /\ UNCHANGED <<response_queue, queue_conn, status, wait_timeout, trace, exc>>

\* status = await self._wait_for_response(expected, timeout), followed by the
\* `if status != 1` that raises DfuException(msg) (after START: that first
\* writes RESET).  The get() returns the head of the queue as soon as there is
\* one; the timeout fires only while the queue is empty
WaitForResponse(expected, timeout, next, msg) ==
    /\ wait_timeout' = timeout
    /\ \/ /\ response_queue # <<>>
          /\ response_queue' = Tail(response_queue)
          /\ queue_conn' = Tail(queue_conn)
          /\ status' = WaitStatus(response_queue, expected)
          /\ trace' = Append(trace, WaitEv(expected, Head(response_queue), status'))
       \/ /\ response_queue = <<>>
          /\ response_queue' = response_queue
          /\ queue_conn' = queue_conn
          /\ status' = WaitStatus(response_queue, expected)
          /\ trace' = Append(trace, WaitEv(expected, <<>>, status'))
    /\ IF Succeeded(status')
       THEN pc' = next /\ exc' = exc
       ELSE IF ResetOnFailure(expected)
       THEN pc' = "w_reset" /\ exc' = exc
       ELSE RaiseInside(DfuException(msg))

PerformUpdate ==
    /\ pc = "idle"
    /\ reset_in_progress' = FALSE
    /\ attempt' = 0
    /\ pc' = "for"
    /\ UNCHANGED <<params, caller, connected, link, subscribed, response_queue, queue_conn,
                   pkg_receipt_event, streamv, status, wait_timeout, exc, result, raised,
                   trace, counters>>

\* for attempt in range(max_retries)
LoopContinues(att, mr) == att < mr

\* for attempt in range(max_retries): the body runs, or the loop is exhausted
\* and the function falls off its end (returns None)
ForAttempt ==
    /\ pc = "for"
    /\ IF LoopContinues(attempt, max_retries)
       THEN pc' = "connect" /\ result' = result
       ELSE pc' = "done" /\ result' = "returned"
    /\ UNCHANGED <<params, caller, attempt, connected, link, subscribed, response_queue, queue_conn,
                   pkg_receipt_event, reset_in_progress, streamv, status, wait_timeout, exc,
                   raised, trace, counters>>

\* mutant: the last attempt is followed by a backoff as well
RetryAgainAlways(att, mr) == att < mr

\* if attempt < max_retries - 1
RetryAgain(att, mr) == att < mr - 1

\* mutant: on exhaustion a new exception is raised in place of the caught one
ExceptHandlerFresh(e) ==
    IF reset_in_progress
    THEN /\ result' = "returned" /\ pc' = "done"
         /\ exc' = e
         /\ UNCHANGED <<raised, backoffs, trace>>
    ELSE IF RetryAgain(attempt, max_retries)
    THEN /\ pc' = "sleep" /\ backoffs' = backoffs + 1
         /\ exc' = NoExc /\ trace' = <<>>
         /\ UNCHANGED <<raised, result>>
    ELSE /\ result' = "raised" /\ raised' = DfuException("DFU failed") /\ pc' = "done"
         /\ exc' = e
         /\ UNCHANGED <<backoffs, trace>>

\* except Exception as e, entered with exception e: success if the reset was
\* under way, else the backoff sleep, else `raise e` out of perform_update
ExceptHandler(e) ==
    IF reset_in_progress
    THEN /\ result' = "returned" /\ pc' = "done"
         /\ exc' = e
         /\ UNCHANGED <<raised, backoffs, trace>>
    ELSE IF RetryAgain(attempt, max_retries)
    THEN /\ pc' = "sleep" /\ backoffs' = backoffs + 1
         /\ exc' = NoExc /\ trace' = <<>>
         /\ UNCHANGED <<raised, result>>
    ELSE /\ result' = "raised" /\ raised' = e /\ pc' = "done"
         /\ exc' = e
         /\ UNCHANGED <<backoffs, trace>>

\* exception e reaches the try statement: `except Exception` catches it, unless
\* it is the CancelledError of a cancellation (a BaseException), which leaves
\* perform_update as it is
Propagate(e) ==
    IF e.type = "CancelledError"
    THEN /\ result' = "cancelled" /\ raised' = e /\ pc' = "done"
         /\ exc' = e
         /\ UNCHANGED <<backoffs, trace>>
    ELSE ExceptHandler(e)

\* async with BleakClient(device, timeout=20.0): __aenter__ connects, or raises
\* straight into the except clause
Connect ==
    /\ pc = "connect"
    /\ connects' = connects + 1
    /\ \/ /\ connected' = TRUE /\ link' = "up" /\ subscribed' = FALSE
          /\ pc' = "start_notify"
          /\ trace' = <<>>
          /\ UNCHANGED <<exc, result, raised, backoffs>>
       \/ /\ ExceptHandler(BleakError("connect"))
          /\ UNCHANGED <<connected, link, subscribed>>
    /\ UNCHANGED <<params, caller, attempt, response_queue, queue_conn, pkg_receipt_event,
                   reset_in_progress, streamv, status, wait_timeout>>

\* await client.start_notify(DFU_CONTROL_POINT_UUID, self._notification_handler)
StartNotify ==
    /\ pc = "start_notify"
    /\ \/ /\ link = "up"
          /\ subscribed' = TRUE
          /\ pc' = "drain"
          /\ exc' = exc
       \/ /\ subscribed' = subscribed
          /\ RaiseInside(BleakError("start_notify"))
    /\ UNCHANGED <<params, caller, attempt, connected, link, response_queue, queue_conn,
                   pkg_receipt_event, reset_in_progress, streamv, status, wait_timeout,
                   result, raised, trace, counters>>

\* mutant: the queue is left as it is
DrainQueueSkipped ==
    /\ pc = "drain"
    /\ response_queue' = response_queue
    /\ queue_conn' = queue_conn
    /\ pc' = "w_start"
    /\ UNCHANGED <<params, caller, attempt, connected, link, subscribed,
                   pkg_receipt_event, reset_in_progress, streamv, status, wait_timeout,
                   exc, result, raised, trace, counters>>

\* while not self.response_queue.empty(): self.response_queue.get_nowait()
DrainQueue ==
    /\ pc = "drain"
    /\ response_queue' = <<>>
    /\ queue_conn' = <<>>
    /\ pc' = "w_start"
    /\ UNCHANGED <<params, caller, attempt, connected, link, subscribed,
                   pkg_receipt_event, reset_in_progress, streamv, status, wait_timeout, exc,
                   result, raised, trace, counters>>

wframe == <<params, caller, attempt, connected, link, subscribed, response_queue, queue_conn,
            pkg_receipt_event, reset_in_progress, streamv, status, wait_timeout, result,
            raised, counters>>

\* START command, then (after the optional packet_delay sleep) the size record
WriteStart ==
    /\ pc = "w_start"
    /\ WriteChar("cp", <<OP_CODE_START_DFU, UPLOAD_MODE_APPLICATION>>, "w_size")
    /\ UNCHANGED wframe

SizePayload == LE32(0) \o LE32(0) \o LE32(Len(bin_data))

WriteSize ==
    /\ pc = "w_size"
    /\ WriteChar("pkt", SizePayload, "wait_start")
    /\ UNCHANGED wframe

waitframe == <<params, caller, attempt, connected, link, subscribed, pkg_receipt_event,
               reset_in_progress, streamv, result, raised, counters>>

\* self._wait_for_response(OP_CODE_START_DFU, timeout=60.0)
WaitStart ==
    /\ pc = "wait_start"
    /\ WaitForResponse(OP_CODE_START_DFU, 60000, "w_init_begin", "Start DFU sequence failed")
    /\ UNCHANGED waitframe

\* status != 1 after START: write RESET, then raise DfuException("Start DFU sequence failed")
FailStart ==
    /\ pc = "w_reset"
    /\ \/ /\ link = "up"
          /\ trace' = Append(trace, WriteEv("cp", <<OP_CODE_RESET>>, TRUE))
          /\ RaiseInside(DfuException("Start DFU sequence failed"))
       \/ /\ trace' = Append(trace, WriteEv("cp", <<OP_CODE_RESET>>, FALSE))
          /\ RaiseInside(BleakError("write"))
    /\ UNCHANGED wframe

WriteInitBegin ==
    /\ pc = "w_init_begin"
    /\ WriteChar("cp", <<OP_CODE_INIT_DFU_PARAMS, 0>>, "w_init_data")
    /\ UNCHANGED wframe

WriteInitData ==
    /\ pc = "w_init_data"
    /\ WriteChar("pkt", dat_data, "w_init_end")
    /\ UNCHANGED wframe

WriteInitEnd ==
    /\ pc = "w_init_end"
    /\ WriteChar("cp", <<OP_CODE_INIT_DFU_PARAMS, 1>>, "wait_init")
    /\ UNCHANGED wframe

\* mutant: the PRN request is written whatever self.prn is
AfterInitAlwaysPrn == "w_prn"

\* after a successful INIT response: the PRN request only if self.prn > 0
AfterInit == IF prn > 0 THEN "w_prn" ELSE "w_receive"

WaitInit ==
    /\ pc = "wait_init"
    /\ WaitForResponse(OP_CODE_INIT_DFU_PARAMS, DefaultTimeout, AfterInit, "Init Packet failed")
    /\ UNCHANGED waitframe

WritePrn ==
    /\ pc = "w_prn"
    /\ WriteChar("cp", <<OP_CODE_PACKET_RECEIPT_NOTIF_REQ>> \o LE16(prn), "w_receive")
    /\ UNCHANGED wframe

WriteReceive ==
    /\ pc = "w_receive"
    /\ WriteChar("cp", <<OP_CODE_RECEIVE_FIRMWARE_IMAGE>>, "stream_begin")
    /\ UNCHANGED wframe

(* ---------------------------- _stream_firmware --------------------------- *)
\* chunk_size = min(self.client.mtu_size - 3, 244)
ChunkSize(mtu) == Min(mtu - AttOverhead, MaxChunk)

\* mutant: the slice stops one byte before the end of the image
ChunkDropsLast(data, at, size) == SubSeq(data, at + 1, Min(at + size, Len(data) - 1))

\* chunk = self.bin_data[i : i + chunk_size]
Chunk(data, at, size) == SubSeq(data, at + 1, Min(at + size, Len(data)))

\* mutant: the loop bound is one byte short
AfterChunkShort(at) == IF at < Len(bin_data) - 1 THEN "stream" ELSE "wait_image"

\* the range(0, total_bytes, chunk_size) loop continues at offset `at` or the
\* function returns and perform_update waits for the image-received response
AfterChunk(at) == IF at < Len(bin_data) THEN "stream" ELSE "wait_image"

\* mutant: every chunk counts as a full one
BytesAfterFull(sent, chunk) == sent + chunk_size

\* self.bytes_sent += len(chunk)
BytesAfter(sent, chunk) == sent + Len(chunk)

\* mutant: with receipts enabled a receipt is awaited after every chunk
ReceiptDueEveryChunk(p, packets) == p > 0

\* if self.prn > 0 and packets_since_prn >= self.prn
ReceiptDue(p, packets) == p > 0 /\ packets >= p

\* the locals of _stream_firmware exist while the call is active
InStream(p) == p \in {"stream", "prn_wait"}

\* pct = int((self.bytes_sent / total_bytes) * 100): the division and the
\* product are in double precision, and for the quotients 0.29, 0.57 and 0.58
\* the product falls just below the integer
Pct(sent, total) ==
    LET q == (100 * sent) \div total
    IN  IF (100 * sent) % total = 0 /\ q \in {29, 57, 58} THEN q - 1 ELSE q

\* if i % 2000 == 0 or i == 0
ProgressDue(at) == at % ProgressEvery = 0 \/ at = 0

ProgressEv(p) == [attempt |-> attempt, pct |-> p]

\* the callback log after the iteration at offset `at` brought bytes_sent to `sent`
Reported(log, at, sent) ==
    IF ProgressDue(at) /\ progress_callback
    THEN Append(log, ProgressEv(Pct(sent, Len(bin_data))))
    ELSE log

\* mutant: nothing is reported after the loop
FinishedSilent(log, p) == log

\* the callback log once control is at p: progress_callback(100) after the loop
Finished(log, p) ==
    IF ~InStream(p) /\ progress_callback THEN Append(log, ProgressEv(100)) ELSE log

\* mutant: the event is not cleared before the wait
ClearedKept(ev) == ev

\* self.pkg_receipt_event.clear()
Cleared(ev) == FALSE

StreamBegin ==
    /\ pc = "stream_begin"
    /\ pc' = AfterChunk(0)
    /\ \E mtu \in MTUs : chunk_size' = IF InStream(pc') THEN ChunkSize(mtu) ELSE 0
    /\ packets_since_prn' = 0
    /\ bytes_sent' = 0
    /\ i' = 0
    /\ progress' = Finished(progress, pc')
    /\ UNCHANGED <<params, caller, attempt, connected, link, subscribed, response_queue, queue_conn,
                   pkg_receipt_event, reset_in_progress, status, wait_timeout, exc, result,
                   raised, trace, counters>>

\* one iteration up to its next suspension: the chunk write, the counters and,
\* when a receipt is due, the clear of the event before the wait
StreamChunk ==
    /\ pc = "stream"
    /\ \/ /\ link = "up"
          /\ trace' = Append(trace, WriteEv("pkt", Chunk(bin_data, i, chunk_size), TRUE))
          /\ bytes_sent' = BytesAfter(bytes_sent, Chunk(bin_data, i, chunk_size))
          /\ IF ReceiptDue(prn, packets_since_prn + 1)
             THEN /\ pkg_receipt_event' = Cleared(pkg_receipt_event)
                  /\ pc' = "prn_wait"
                  /\ i' = i
                  /\ packets_since_prn' = packets_since_prn + 1
                  /\ chunk_size' = chunk_size
             ELSE /\ pkg_receipt_event' = pkg_receipt_event
                  /\ pc' = AfterChunk(i + chunk_size)
                  /\ i' = IF InStream(pc') THEN i + chunk_size ELSE 0
                  /\ packets_since_prn' = IF InStream(pc') THEN packets_since_prn + 1 ELSE 0
                  /\ chunk_size' = IF InStream(pc') THEN chunk_size ELSE 0
          /\ progress' = Finished(Reported(progress, i, bytes_sent'), pc')
          /\ exc' = exc
       \/ /\ trace' = Append(trace, WriteEv("pkt", Chunk(bin_data, i, chunk_size), FALSE))
          /\ RaiseInside(BleakError("write"))
          /\ i' = 0 /\ packets_since_prn' = 0 /\ chunk_size' = 0
          /\ UNCHANGED <<bytes_sent, pkg_receipt_event, progress>>
    /\ UNCHANGED <<params, caller, attempt, connected, link, subscribed, response_queue, queue_conn,
                   reset_in_progress, status, wait_timeout, result, raised, counters>>

\* mutant: the timeout of the receipt wait propagates out of the loop
ReceiptWaitAborts ==
    /\ pc = "prn_wait"
    /\ trace' = Append(trace, PrnEv(pkg_receipt_event))
    /\ packets_since_prn' = 0
    /\ IF pkg_receipt_event
       THEN /\ pc' = AfterChunk(i + chunk_size)
            /\ i' = IF InStream(pc') THEN i + chunk_size ELSE 0
            /\ chunk_size' = IF InStream(pc') THEN chunk_size ELSE 0
            /\ progress' = Finished(progress, pc')
            /\ exc' = exc
       ELSE /\ RaiseInside([type |-> "TimeoutError", msg |-> "receipt", attempt |-> attempt])
            /\ i' = 0 /\ chunk_size' = 0
            /\ progress' = progress
    /\ UNCHANGED <<params, caller, attempt, connected, link, subscribed, response_queue, queue_conn,
                   pkg_receipt_event, reset_in_progress, status, wait_timeout, bytes_sent,
                   result, raised, counters>>

\* await asyncio.wait_for(self.pkg_receipt_event.wait(), timeout): returns once
\* the event is set, or times out while it is not; either way the counter resets
ReceiptWait ==
    /\ pc = "prn_wait"
    /\ trace' = Append(trace, PrnEv(pkg_receipt_event))
    /\ packets_since_prn' = 0
    /\ pc' = AfterChunk(i + chunk_size)
    /\ i' = IF InStream(pc') THEN i + chunk_size ELSE 0
    /\ chunk_size' = IF InStream(pc') THEN chunk_size ELSE 0
    /\ progress' = Finished(progress, pc')
    /\ UNCHANGED <<params, caller, attempt, connected, link, subscribed, response_queue, queue_conn,
                   pkg_receipt_event, reset_in_progress, status, wait_timeout, bytes_sent,
                   exc, result, raised, counters>>

(* ------------------- perform_update: validate and reset ------------------ *)
\* mutant: the timeout is the scaled size alone
FlashWriteTimeoutUnscaled(total) == total \div 50

\* flash_write_timeout = max(60.0, len(self.bin_data) / 50000), in whole
\* milliseconds
FlashWriteTimeout(total) == IF total \div 50 > 60000 THEN total \div 50 ELSE 60000

WaitImage ==
    /\ pc = "wait_image"
    /\ WaitForResponse(OP_CODE_RECEIVE_FIRMWARE_IMAGE, FlashWriteTimeout(Len(bin_data)),
                       "w_validate", "Upload failed")
    /\ UNCHANGED waitframe

WriteValidate ==
    /\ pc = "w_validate"
    /\ WriteChar("cp", <<OP_CODE_VALIDATE>>, "wait_validate")
    /\ UNCHANGED wframe

WaitValidate ==
    /\ pc = "wait_validate"
    /\ WaitForResponse(OP_CODE_VALIDATE, DefaultTimeout, "set_reset", "Validation failed")
    /\ UNCHANGED waitframe

\* mutant: the flag is left as it is
SetResetInProgressSkipped ==
    /\ pc = "set_reset"
    /\ reset_in_progress' = reset_in_progress
    /\ pc' = "w_activate"
    /\ UNCHANGED <<params, caller, attempt, connected, link, subscribed, response_queue,
                   queue_conn, pkg_receipt_event, streamv, status, wait_timeout, exc,
                   result, raised, trace, counters>>

\* self.reset_in_progress = True
SetResetInProgress ==
    /\ pc = "set_reset"
    /\ reset_in_progress' = TRUE
    /\ pc' = "w_activate"
    /\ UNCHANGED <<params, caller, attempt, connected, link, subscribed, response_queue, queue_conn,
                   pkg_receipt_event, streamv, status, wait_timeout, exc, result, raised,
                   trace, counters>>

WriteActivate ==
    /\ pc = "w_activate"
    /\ WriteChar("cp", <<OP_CODE_ACTIVATE_AND_RESET>>, "aexit_return")
    /\ UNCHANGED wframe

(* ------------------- leaving the connection, retry loop ------------------ *)
\* the link once the client disconnected: a link that dropped stays dropped
Closed(l) == IF l = "up" THEN "closed" ELSE l

\* __aexit__ while an exception propagates: the client disconnects (an error
\* raised by the disconnect replaces the exception), then the except clause runs
ExitOnException ==
    /\ pc = "aexit"
    /\ status' = 0 /\ wait_timeout' = 0
    /\ connected' = FALSE /\ link' = Closed(link) /\ subscribed' = FALSE
    /\ \E e \in {exc, BleakError("disconnect")} : Propagate(e)
    /\ UNCHANGED <<params, caller, attempt, response_queue, queue_conn, pkg_receipt_event,
                   reset_in_progress, streamv, connects>>

\* `return` inside the async with: __aexit__ disconnects, then the function
\* returns, unless the disconnect itself raises into the except clause
ExitOnReturn ==
    /\ pc = "aexit_return"
    /\ status' = 0 /\ wait_timeout' = 0
    /\ connected' = FALSE /\ link' = Closed(link) /\ subscribed' = FALSE
    /\ \/ /\ result' = "returned" /\ pc' = "done"
          /\ UNCHANGED <<exc, raised, backoffs, trace>>
       \/ ExceptHandler(BleakError("disconnect"))
    /\ UNCHANGED <<params, caller, attempt, response_queue, queue_conn, pkg_receipt_event,
                   reset_in_progress, streamv, connects>>

\* mutant: the loop variable does not advance
BackoffDoneSameAttempt ==
    /\ pc = "sleep"
    /\ attempt' = attempt
    /\ pc' = "for"
    /\ UNCHANGED <<params, caller, connected, link, subscribed, response_queue,
                   queue_conn, pkg_receipt_event, reset_in_progress, streamv, status,
                   wait_timeout, exc, result, raised, trace, counters>>

\* await asyncio.sleep(3.0) returns; the loop takes its next value
BackoffDone ==
    /\ pc = "sleep"
    /\ attempt' = attempt + 1
    /\ pc' = "for"
    /\ UNCHANGED <<params, caller, connected, link, subscribed, response_queue, queue_conn,
                   pkg_receipt_event, reset_in_progress, streamv, status, wait_timeout, exc,
                   result, raised, trace, counters>>

\* the awaits of perform_update at which the coroutine is suspended: entering
\* the connection, the subscription, the writes, the response waits, the
\* receipt wait and the backoff sleep
WritePcs == {"w_start", "w_size", "w_reset", "w_init_begin", "w_init_data",
             "w_init_end", "w_prn", "w_receive", "stream", "w_validate", "w_activate"}
SuspensionPoints ==
    {"connect", "start_notify", "sleep", "prn_wait"} \cup WritePcs
    \cup {"wait_start", "wait_init", "wait_image", "wait_validate"}

\* the caller cancels the task: CancelledError is raised at the await where the
\* coroutine is suspended; inside the `async with` it first runs __aexit__
Cancel ==
    /\ ~cancel_requested
    /\ pc \in SuspensionPoints
    /\ cancel_requested' = TRUE
    /\ IF connected
       THEN /\ RaiseInside(CancelledError)
            /\ UNCHANGED <<result, raised, backoffs, trace>>
       ELSE Propagate(CancelledError)
    /\ i' = 0 /\ chunk_size' = 0 /\ packets_since_prn' = 0
    /\ UNCHANGED <<params, locator, zip_file, manifest, parse_result, jump_result, attempt, connected, link, subscribed,
                   response_queue, queue_conn, pkg_receipt_event, reset_in_progress,
                   bytes_sent, progress, status, wait_timeout, connects>>

Next ==
    \/ \E data \in Frames : NotificationHandler(data)
    \/ LinkDrop
    \/ PerformUpdate
    \/ ForAttempt
    \/ Connect
    \/ StartNotify
    \/ DrainQueue
    \/ WriteStart
    \/ WriteSize
    \/ WaitStart
    \/ FailStart
    \/ WriteInitBegin
    \/ WriteInitData
    \/ WriteInitEnd
    \/ WaitInit
    \/ WritePrn
    \/ WriteReceive
    \/ StreamBegin
    \/ StreamChunk
    \/ ReceiptWait
    \/ WaitImage
    \/ WriteValidate
    \/ WaitValidate
    \/ SetResetInProgress
    \/ WriteActivate
    \/ ExitOnException
    \/ ExitOnReturn
    \/ BackoffDone

Spec == Init /\ [][Next]_vars

\* the steps of the perform_update coroutine itself
EngineStep ==
    \/ PerformUpdate
    \/ ForAttempt
    \/ Connect
    \/ StartNotify
    \/ DrainQueue
    \/ WriteStart
    \/ WriteSize
    \/ WaitStart
    \/ FailStart
    \/ WriteInitBegin
    \/ WriteInitData
    \/ WriteInitEnd
    \/ WaitInit
    \/ WritePrn
    \/ WriteReceive
    \/ StreamBegin
    \/ StreamChunk
    \/ ReceiptWait
    \/ WaitImage
    \/ WriteValidate
    \/ WaitValidate
    \/ SetResetInProgress
    \/ WriteActivate
    \/ ExitOnException
    \/ ExitOnReturn
    \/ BackoffDone

(* ------------------- perform_update with every await ending -------------- *)
\* a single attempt or the largest number of attempts, receipts requested
InitTerminate ==
    /\ \E mr \in {1, MaxRetries} : Constructed(mr, MaxPrn, FALSE)
    /\ LocatorDone

\* the device answers each command with success, or fails the validation, and
\* sends receipts
NextTerminate ==
    \/ \E data \in {<<OP_CODE_RESPONSE_CODE, o, 1>> : o \in RespOps}
                    \cup {<<OP_CODE_RESPONSE_CODE, OP_CODE_VALIDATE, 6>>,
                          <<OP_CODE_PACKET_RECEIPT_NOTIF, 20, 0, 0, 0>>} :
          NotificationHandler(data)
    \/ LinkDrop
    \/ EngineStep

\* every await of the coroutine ends: the connect, the subscription and each
\* write return or raise, each response and receipt wait ends by frame or by
\* its timeout, the sleep returns, and the event loop then resumes the coroutine
SpecTerminate == InitTerminate /\ [][NextTerminate]_vars /\ WF_vars(EngineStep)

(* ------------------- perform_update in a cancellable task ---------------- *)
\* one retry, receipt notifications requested
InitCancel == Constructed(MaxRetries - 1, MaxPrn, FALSE) /\ LocatorDone

NextCancel ==
    \/ Next
    \/ Cancel

SpecCancel == InitCancel /\ [][NextCancel]_vars

(* ------------------ perform_update with a progress callback -------------- *)
\* the engine as the command-line and graphical front ends construct it: with
\* a progress callback; one retry, receipt notifications requested
InitProgress == Constructed(MaxRetries - 1, MaxPrn, TRUE) /\ LocatorDone

SpecProgress == InitProgress /\ [][Next]_vars

(* --------------------- _stream_firmware on its own ----------------------- *)
\* image lengths around the 244-byte cap, and one image long enough for the
\* progress reports at offsets 2000 and 4000
LongLens == {MaxChunk, MaxChunk + 1, 2 * MaxChunk + 1, 2 * ProgressEvery + MaxImageLen}

\* pairs <<prn, image length>> for the transfer loop: every short length with
\* every receipt interval, the long images without receipts
StreamCases ==
    ((0..MaxStreamPrn) \X (0..MaxStreamLen)) \cup ({0} \X LongLens)

\* frames the device sends while it receives the image: receipts, and the
\* image-received response
StreamFrames ==
    {<<OP_CODE_PACKET_RECEIPT_NOTIF, 20, 0, 0, 0>>, <<OP_CODE_PACKET_RECEIPT_NOTIF>>,
     <<OP_CODE_RESPONSE_CODE, OP_CODE_RECEIVE_FIRMWARE_IMAGE, 1>>}

\* the state in which perform_update calls _stream_firmware: the first attempt
\* is connected and subscribed, the RECEIVE command has been written
InitStream ==
    /\ pc = "stream_begin"
    /\ max_retries = 1
    /\ attempt = 0
    /\ \E c \in StreamCases : prn = c[1] /\ bin_data = Image(c[2])
    /\ dat_data = DatData
    /\ connected = TRUE
    /\ link = "up"
    /\ subscribed = TRUE
    /\ response_queue = <<>>
    /\ pkg_receipt_event = FALSE
    /\ reset_in_progress = FALSE
    /\ bytes_sent = 0
    /\ status = 1
    /\ i = 0
    /\ chunk_size = 0
    /\ packets_since_prn = 0
    /\ exc = NoExc
    /\ result = "none"
    /\ raised = NoExc
    /\ trace = <<>>
    /\ connects = 1
    /\ backoffs = 0
    /\ progress_callback \in BOOLEAN
    /\ progress = <<>>
    /\ cancel_requested = FALSE
    /\ queue_conn = <<>>
    /\ wait_timeout = DefaultTimeout
    /\ zip_file = <<Entry(ApplicationMarker \o BinSuffix, bin_data, NotJson),
                    Entry(ApplicationMarker \o DatSuffix, dat_data, NotJson)>>
    /\ manifest = None
    /\ parse_result = "returned"
    /\ jump_result = "none"
    /\ LocatorDone

NextStream ==
    \/ \E data \in StreamFrames : NotificationHandler(data)
    \/ LinkDrop
    \/ StreamBegin
    \/ StreamChunk
    \/ ReceiptWait

SpecStream == InitStream /\ [][NextStream]_vars

\* the event loop resumes the coroutine once the awaited write has completed
\* or raised, and once the receipt wait has returned or reached its timeout
SpecStreamFair ==
    /\ SpecStream
    /\ WF_vars(StreamBegin) /\ WF_vars(StreamChunk) /\ WF_vars(ReceiptWait)

(* ------------ find_device_by_name_or_address and the front ends ---------- *)
\* d.address.upper() == name_or_address.upper()
AddressMatches(d, q) == Upper(d.address) = Upper(q)

\* adv_name = adv.local_name or d.name or ""
AdvName(d) == IF d.local_name # <<>> THEN d.local_name ELSE d.name

\* adv_name == name_or_address
NameMatches(d, q) == AdvName(d) = q

\* service_uuid and service_uuid.lower() in [u.lower() for u in adv.service_uuids]
UuidMatches(d, u) ==
    u # NoUuid /\ \E k \in 1..Len(d.service_uuids) : Lower(d.service_uuids[k]) = Lower(u)

\* the three tests the loop body applies to one scanned device
Matches(d, q, u) == AddressMatches(d, q) \/ NameMatches(d, q) \/ UuidMatches(d, u)

\* for key, (d, adv) in scanned_devices.items(): the first device, in dict
\* order, that passes one of the tests ends the loop; NoDevice if none does
RECURSIVE FirstMatch(_, _, _)
FirstMatch(scan, q, u) ==
    IF scan = <<>> THEN NoDevice
    ELSE IF Matches(Head(scan), q, u) THEN Head(scan)
    ELSE FirstMatch(Tail(scan), q, u)

HexDigits == <<"0", "1", "2", "3", "4", "5", "6", "7", "8", "9", "A", "B", "C", "D", "E", "F">>
IsHexChar(c) == \E k \in 1..16 : HexDigits[k] = UpperChar(c)
HexVal(c) == (CHOOSE k \in 1..16 : HexDigits[k] = UpperChar(c)) - 1

\* int(original_mac[-2:], 16) of a two-character string
IntHex(str) == 16 * HexVal(str[1]) + HexVal(str[2])

\* f"{last_byte:02X}": upper-case hexadecimal, zero-padded to at least two digits
Format02X(n) ==
    IF n < 256
    THEN <<HexDigits[(n \div 16) + 1], HexDigits[(n % 16) + 1]>>
    ELSE <<HexDigits[(n \div 256) + 1], HexDigits[((n \div 16) % 16) + 1],
           HexDigits[(n % 16) + 1]>>

\* mutant: the increment carries out of the byte
NextByteCarry(b) == b + 1

\* last_byte = (last_byte + 1) & 0xFF
NextByte(b) == (b + 1) % 256

\* if ":" in original_mac and len(original_mac) == 17, and int() accepts the
\* last two characters
IsMacFormat(mac) ==
    /\ \E k \in 1..Len(mac) : mac[k] = ":"
    /\ Len(mac) = 17
HasHexTail(mac) == IsHexChar(mac[Len(mac) - 1]) /\ IsHexChar(mac[Len(mac)])

\* bootloader_mac_hint = f"{prefix}{last_byte:02X}"
BootloaderHint(mac) ==
    SubSeq(mac, 1, Len(mac) - 2)
        \o Format02X(NextByte(IntHex(SubSeq(mac, Len(mac) - 1, Len(mac)))))

\* addresses: a 17-character address with the last two bytes given, and the
\* identifier CoreBluetooth gives in place of an address
Mac(b5, b6) == <<"C", "0", ":", "1", "1", ":", "2", "2", ":", "3", "3", ":">> \o b5 \o <<":">> \o b6
CoreBluetoothId == <<"6", "E", "4", "0", "0", "0", "0", "1", "-", "B", "5", "A", "3", "-", "F", "3", "9", "3", "-", "E", "0", "A", "9", "-", "E", "5", "0", "E", "2", "4", "D", "C", "C", "A", "9", "E">>
AppAddresses ==
    {Mac(<<"E", "E">>, <<"0", "F">>), Mac(<<"E", "E">>, <<"F", "F">>),
     Lower(Mac(<<"E", "E">>, <<"9", "F">>)), CoreBluetoothId}

\* devices a scan may report: one advertising the name DFU, one advertising
\* the DFU service (in upper case) under another name, devices at the
\* addresses one above the application addresses, one at the address a carry
\* into the fifth byte would give, and one whose name is an address
DevicePool ==
    {Device(Mac(<<"A", "1">>, <<"0", "1">>), DfuName, <<"n">>, <<>>),
     Device(Mac(<<"A", "1">>, <<"0", "2">>), <<>>, <<"D", "f", "u", "T", "a", "r", "g">>,
            <<Upper(DFU_SERVICE_UUID)>>),
     Device(Lower(Mac(<<"E", "E">>, <<"1", "0">>)), <<>>, <<"b">>, <<>>),
     Device(Mac(<<"E", "E">>, <<"0", "0">>), <<>>, <<"b">>, <<>>),
     Device(Mac(<<"E", "E">>, <<"A", "0">>), <<>>, <<"b">>, <<>>),
     Device(Mac(<<"E", "F">>, <<"0", "0">>), <<>>, <<"b">>, <<>>),
     Device(Mac(<<"A", "1">>, <<"0", "3">>), Mac(<<"E", "E">>, <<"0", "0">>), <<"n">>, <<>>)}

\* scan results: up to MaxScan distinct devices in any order
Scans ==
    {sc \in UNION {[1..n -> DevicePool] : n \in 0..MaxScan} :
        \A j, k \in 1..Len(sc) : j # k => sc[j] # sc[k]}

SearchEv(q, u, scan, d) == [query |-> q, uuid |-> u, scan |-> scan, found |-> d]

\* bootloader_device = await find_device_by_name_or_address(q, force_scan,
\* service_uuid=u) inside a try whose except clause leaves bootloader_device
\* None when the function raises "Device not found.": without force_scan (and
\* without adapter) find_device_by_address may return the device with that
\* address first; otherwise the scan and the loop over its result
FindDevice(q, u) ==
    \/ /\ ~force_scan
       /\ \E d \in DevicePool :
             /\ Lower(d.address) = Lower(q)
             /\ bootloader_device' = d
             /\ searches' = Append(searches, SearchEv(q, u, <<>>, d))
       /\ scanned_devices' = <<>>
    \/ \E scan \in Scans :
          /\ scanned_devices' = scan
          /\ bootloader_device' = FirstMatch(scan, q, u)
          /\ searches' = Append(searches, SearchEv(q, u, scan, bootloader_device'))

engine == <<pc, params, attempt, connected, link, subscribed, response_queue, queue_conn,
            pkg_receipt_event, reset_in_progress, streamv, status, wait_timeout, exc, result,
            raised, trace, counters, cancel_requested>>

\* the search for the device named DFU or advertising the DFU service
PrimarySearch ==
    /\ loc_pc = "primary"
    /\ FindDevice(DfuName, DFU_SERVICE_UUID)
    /\ loc_pc' = "fallback"
    /\ UNCHANGED <<engine, zip_file, manifest, parse_result, jump_result, front, app_address, force_scan, loc_error, update_invoked>>

\* if not bootloader_device: the search for the address one above the
\* application's, when that address has the 17-character form
FallbackSearch ==
    /\ loc_pc = "fallback"
    /\ IF bootloader_device = NoDevice /\ IsMacFormat(app_address) /\ HasHexTail(app_address)
       THEN FindDevice(BootloaderHint(app_address), NoUuid)
       ELSE UNCHANGED <<scanned_devices, bootloader_device, searches>>
    /\ loc_pc' = "check"
    /\ UNCHANGED <<engine, zip_file, manifest, parse_result, jump_result, front, app_address, force_scan, loc_error, update_invoked>>

\* the message of the exception raised when no bootloader was found
CouldNotLocate(f) ==
    IF f = "cli"
    THEN "Could not locate DFU Bootloader device."
    ELSE "Could not locate Bootloader device. Try putting device in DFU mode manually."

\* if not bootloader_device: raise ...; await dfu.perform_update(bootloader_device)
InvokeUpdate ==
    /\ loc_pc = "check"
    /\ IF bootloader_device = NoDevice
       THEN /\ loc_error' = CouldNotLocate(front)
            /\ loc_pc' = "failed"
            /\ update_invoked' = update_invoked
       ELSE /\ update_invoked' = TRUE
            /\ loc_pc' = "update"
            /\ loc_error' = loc_error
    /\ UNCHANGED <<engine, zip_file, manifest, parse_result, jump_result, front, app_address, force_scan, scanned_devices,
                   bootloader_device, searches>>

\* the front end after the jump command and the 5 s sleep: the command line
\* always forces the scan, the graphical front end leaves it to the user
InitLocate ==
    /\ Constructed(MaxRetries, MaxPrn, TRUE)
    /\ front \in {"cli", "gui"}
    /\ loc_pc = "primary"
    /\ app_address \in AppAddresses
    /\ force_scan \in (IF front = "cli" THEN {TRUE} ELSE BOOLEAN)
    /\ scanned_devices = <<>>
    /\ bootloader_device = NoDevice
    /\ searches = <<>>
    /\ loc_error = "none"
    /\ update_invoked = FALSE

NextLocate ==
    \/ PrimarySearch
    \/ FallbackSearch
    \/ InvokeUpdate

SpecLocate == InitLocate /\ [][NextLocate]_vars

(* --------------------------- jump_to_bootloader -------------------------- *)
\* mutant: the except clause of jump_to_bootloader re-raises
JumpCaughtReraises(e) ==
    /\ jump_result' = "raised"
    /\ pc' = "done"
    /\ exc' = e

\* except Exception as e: the exception is logged and the function returns
JumpCaught(e) ==
    /\ jump_result' = "returned"
    /\ pc' = "idle"
    /\ exc' = NoExc

\* await dfu.jump_to_bootloader(app_device), before perform_update: async with
\* BleakClient(device) connects, or raises into the except clause
JumpConnect ==
    /\ pc = "idle" /\ jump_result = "none"
    /\ \/ /\ connected' = TRUE /\ link' = "up" /\ subscribed' = FALSE
          /\ pc' = "jump_notify"
          /\ UNCHANGED <<exc, jump_result>>
       \/ /\ JumpCaught(BleakError("connect"))
          /\ UNCHANGED <<connected, link, subscribed>>
    /\ UNCHANGED <<params, cancel_requested, locator, zip_file, manifest, parse_result,
                   attempt, response_queue, queue_conn, pkg_receipt_event,
                   reset_in_progress, streamv, status, wait_timeout, result, raised,
                   counters,
                   trace>>

\* await client.start_notify(DFU_CONTROL_POINT_UUID, self._notification_handler)
JumpStartNotify ==
    /\ pc = "jump_notify"
    /\ \/ /\ link = "up"
          /\ subscribed' = TRUE
          /\ pc' = "jump_write"
          /\ exc' = exc
       \/ /\ subscribed' = subscribed
          /\ pc' = "jump_aexit"
          /\ exc' = BleakError("start_notify")
    /\ UNCHANGED <<params, cancel_requested, locator, zip_file, manifest, parse_result,
                   attempt, response_queue, queue_conn, pkg_receipt_event,
                   reset_in_progress, streamv, status, wait_timeout, result, raised,
                   counters,
                   connected, link, trace, jump_result>>

\* the write of the jump command inside its own try: an exception of the write
\* is passed over
JumpWrite ==
    /\ pc = "jump_write"
    /\ \E ok \in {link = "up", FALSE} :
          trace' = Append(trace, WriteEv("cp", <<OP_CODE_ENTER_BOOTLOADER,
                                                 UPLOAD_MODE_APPLICATION>>, ok))
    /\ pc' = "jump_aexit"
    /\ UNCHANGED <<params, cancel_requested, locator, zip_file, manifest, parse_result,
                   attempt, response_queue, queue_conn, pkg_receipt_event,
                   reset_in_progress, streamv, status, wait_timeout, result, raised,
                   counters,
                   connected, link, subscribed, exc, jump_result>>

\* __aexit__ of the jump connection: the client disconnects; the function
\* returns unless an exception is propagating or the disconnect raises, which
\* the except clause catches
JumpExit ==
    /\ pc = "jump_aexit"
    /\ connected' = FALSE /\ link' = Closed(link) /\ subscribed' = FALSE
    /\ \E e \in {exc, BleakError("disconnect")} :
          IF e = NoExc
          THEN jump_result' = "returned" /\ pc' = "idle" /\ exc' = NoExc
          ELSE JumpCaught(e)
    /\ UNCHANGED <<params, cancel_requested, locator, zip_file, manifest, parse_result,
                   attempt, response_queue, queue_conn, pkg_receipt_event,
                   reset_in_progress, streamv, status, wait_timeout, result, raised,
                   counters,
                   trace>>

NextJump ==
    \/ JumpConnect
    \/ JumpStartNotify
    \/ JumpWrite
    \/ JumpExit
    \/ Next

\* jump, then update, from the same initial state: one retry, receipts requested
SpecJump == InitCancel /\ [][NextJump]_vars

(* ------------------------ parse_zip on its own --------------------------- *)
\* entries an archive may hold.  Manifests: a complete one, ones whose
\* application object lacks one or both file names or is null, one without
\* application object, one without manifest object, one whose manifest is null,
\* and a manifest.json that is not JSON.  Files: the two application files with
\* content and empty, a second image whose marker is in upper case, an image
\* with an upper-case extension, a second init file, an image of another kind
EntryPool ==
    {Entry(ManifestName, <<123>>, m) : m \in
        {Dict([manifest |-> Dict([application |->
            Dict([bin_file |-> Str(ApplicationMarker \o BinSuffix),
                  dat_file |-> Str(ApplicationMarker \o DatSuffix)])])]),
         Dict([manifest |-> Dict([application |->
            Dict([bin_file |-> Str(ApplicationMarker \o BinSuffix)])])]),
         Dict([manifest |-> Dict([application |->
            Dict([dat_file |-> Str(ApplicationMarker \o DatSuffix)])])]),
         Dict([manifest |-> Dict([application |-> Dict(<<>>)])]),
         Dict([manifest |-> Dict([application |-> None])]),
         Dict([manifest |-> Dict(<<>>)]),
         Dict(<<>>),
         Dict([manifest |-> None]),
         NotJson}}
    \cup {Entry(ApplicationMarker \o BinSuffix, d, NotJson) : d \in {Image(3), <<>>}}
    \cup {Entry(ApplicationMarker \o DatSuffix, d, NotJson) : d \in {DatData, <<>>}}
    \cup {Entry(<<"A", "P", "P", "L", "I", "C", "A", "T", "I", "O", "N", "2", ".", "b", "i", "n">>, Image(5), NotJson),
          Entry(<<"a", "p", "p", "l", "i", "c", "a", "t", "i", "o", "n", ".", "B", "I", "N">>, Image(4), NotJson),
          Entry(<<"a", "p", "p", "l", "i", "c", "a", "t", "i", "o", "n", "2", ".", "d", "a", "t">>, <<9>>, NotJson),
          Entry(<<"s", "o", "f", "t", "d", "e", "v", "i", "c", "e", ".", "b", "i", "n">>, Image(2), NotJson)}

\* archives: up to MaxEntries entries with distinct names, in any order
Archives ==
    {z \in UNION {[1..n -> EntryPool] : n \in 0..MaxEntries} :
        \A j, k \in 1..Len(z) : j # k => z[j].name # z[k].name}

\* the new engine, before parse_zip
InitParse ==
    /\ NewEngine(MaxRetries, MaxPrn, TRUE)
    /\ zip_file \in Archives
    /\ manifest = None
    /\ bin_data = Unset
    /\ dat_data = Unset
    /\ parse_result = "none"
    /\ jump_result = "none"
    /\ LocatorDone

SpecParse == InitParse /\ [][ParseZip]_vars

(* ======================= properties of perform_update ===================== *)
\* reading the trace of the current attempt
IsWrite(ev, ch, data) == ev.kind = "write" /\ ev.ch = ch /\ ev.data = data
IsCpWrite(ev) == ev.kind = "write" /\ ev.ch = "cp"
IsWait(ev, op) == ev.kind = "wait" /\ ev.data[1] = op
\* the wait for `op` took a response echoing `op` with status 1
GoodWait(ev, op) == ev.kind = "wait" /\ ev.data = <<op, op, 1>> /\ ev.got = "echo"
FailedWait(ev) == ev.kind = "wait" /\ ev.data # <<ev.data[1], ev.data[1], 1>>
ActivateCmd == <<OP_CODE_ACTIVATE_AND_RESET>>
ResetCmd == <<OP_CODE_RESET>>
AwaitedOps == <<OP_CODE_START_DFU, OP_CODE_INIT_DFU_PARAMS,
                OP_CODE_RECEIVE_FIRMWARE_IMAGE, OP_CODE_VALIDATE>>
\* the attempt is over with an exception
AttemptFailed == pc = "aexit" \/ (pc = "done" /\ exc # NoExc)

\* C1: ACTIVATE_AND_RESET is written only after the START, INIT, image-received
\* and VALIDATE waits of the same attempt each took a response echoing the
\* awaited opcode with status 1, and a wait that ended otherwise (error status,
\* wrong opcode, timeout) is followed by no further protocol step of the
\* attempt (at most the RESET write)
C1_ActivateOnlyAfterFourSuccesses ==
    /\ \A k \in 1..Len(trace) :
          IsWrite(trace[k], "cp", ActivateCmd) =>
             \E d \in 1..(k - 1) :
                /\ GoodWait(trace[d], OP_CODE_VALIDATE)
                /\ \E c \in 1..(d - 1) :
                      /\ GoodWait(trace[c], OP_CODE_RECEIVE_FIRMWARE_IMAGE)
                      /\ \E b \in 1..(c - 1) :
                            /\ GoodWait(trace[b], OP_CODE_INIT_DFU_PARAMS)
                            /\ \E a \in 1..(b - 1) :
                                  GoodWait(trace[a], OP_CODE_START_DFU)
    /\ \A k \in 1..Len(trace) :
          FailedWait(trace[k]) =>
             /\ \A m \in (k + 1)..Len(trace) : IsWrite(trace[m], "cp", ResetCmd)
             /\ pc \in {"w_reset", "aexit", "done"}

\* C1 witness: an attempt wrote ACTIVATE_AND_RESET
C1_Witness ==
    /\ trace # <<>>
    /\ IsWrite(trace[Len(trace)], "cp", ActivateCmd)
    /\ trace[Len(trace)].res = 1

\* the writes and response waits of the attempt (receipt waits left out)
Steps == SelectSeq(trace, LAMBDA e : e.kind # "prn")
NoFailure(t) == \A k \in 1..Len(t) : t[k].res = 1
IsChunkWrite(ev) == ev.kind = "write" /\ ev.ch = "pkt"
OkWait(op) == WaitEv(op, <<op, 1>>, 1)
RECURSIVE Flatten(_)
Flatten(ss) == IF ss = <<>> THEN <<>> ELSE Head(ss) \o Flatten(Tail(ss))

\* the steps up to and including the RECEIVE_FIRMWARE_IMAGE trigger
StepsBeforeImage ==
    <<WriteEv("cp", <<1, 4>>, TRUE),
      WriteEv("pkt", LE32(0) \o LE32(0) \o LE32(Len(bin_data)), TRUE),
      OkWait(1),
      WriteEv("cp", <<2, 0>>, TRUE),
      WriteEv("pkt", dat_data, TRUE),
      WriteEv("cp", <<2, 1>>, TRUE),
      OkWait(2)>>
    \o (IF prn > 0 THEN <<WriteEv("cp", <<8, prn % 256, prn \div 256>>, TRUE)>> ELSE <<>>)
    \o <<WriteEv("cp", <<3>>, TRUE)>>

\* the steps after the last image chunk
StepsAfterImage ==
    <<OkWait(3), WriteEv("cp", <<4>>, TRUE), OkWait(4), WriteEv("cp", <<5>>, TRUE)>>

\* the image chunks written so far: the data-channel writes after the trigger
ChunkSteps(t) == SelectSeq(SubSeq(t, Len(StepsBeforeImage) + 1, Len(t)), IsChunkWrite)

\* C2: while an attempt has met no failure, its writes and waits are a prefix
\* of: START, size record, START wait, INIT-begin, init data, INIT-end, INIT
\* wait, PRN-configure (iff prn > 0), RECEIVE_FIRMWARE_IMAGE, the image chunks,
\* image-received wait, VALIDATE, VALIDATE wait, ACTIVATE_AND_RESET; the
\* image-received wait starts only once the chunks written make up the image,
\* and a successful return has gone through all of it
C2_SuccessfulAttemptOrder ==
    LET t == Steps
        h == Len(StepsBeforeImage)
        c == Len(ChunkSteps(t))
    IN NoFailure(t) =>
         /\ \A k \in 1..Len(t) :
               IF k <= h THEN t[k] = StepsBeforeImage[k]
               ELSE IF k <= h + c THEN IsChunkWrite(t[k])
               ELSE k - h - c <= Len(StepsAfterImage) /\ t[k] = StepsAfterImage[k - h - c]
         /\ Len(t) > h + c =>
               Flatten([k \in 1..c |-> ChunkSteps(t)[k].data]) = bin_data
         /\ (pc = "done" /\ result = "returned" /\ connects > 0) =>
               Len(t) = h + c + Len(StepsAfterImage)

\* C2 witness: a returned update whose only attempt met no failure, configured
\* PRN and sent the image in more than one chunk
C2_Witness ==
    /\ pc = "done" /\ result = "returned" /\ connects = 1
    /\ NoFailure(Steps)
    /\ prn > 0
    /\ Len(ChunkSteps(Steps)) >= 2
    /\ Len(Steps) = Len(StepsBeforeImage) + Len(ChunkSteps(Steps)) + Len(StepsAfterImage)

\* the ACTIVATE_AND_RESET write of the attempt completed
ActivateWritten ==
    \E k \in 1..Len(trace) : IsWrite(trace[k], "cp", ActivateCmd) /\ trace[k].res = 1

\* C3: a link drop after ACTIVATE_AND_RESET was written ends perform_update
\* with success and no further attempt; a link drop at any earlier point of the
\* attempt fails the attempt: the call never returns success from it, and
\* raises only when no attempt remains
C3_DisconnectClassification ==
    /\ (link = "dropped" /\ ActivateWritten) =>
          /\ pc \in {"aexit_return", "done"}
          /\ pc = "done" => result = "returned"
    /\ (link = "dropped" /\ ~ActivateWritten /\ pc = "done") =>
          /\ result = "raised"
          /\ attempt = max_retries - 1

\* C4: perform_update connects at most max_retries times, once per attempt and
\* never while the previous connection is still open, and sleeps the backoff
\* exactly once between consecutive attempts: a success on attempt k has made
\* k connections and k - 1 backoffs, and an exhausted update has made
\* max_retries connections and max_retries - 1 backoffs (none after the last)
C4_AttemptsAndBackoffs ==
    /\ connects <= max_retries
    /\ connects = IF pc \in {"idle", "for", "connect"} \/ max_retries = 0
                  THEN attempt ELSE attempt + 1
    /\ backoffs = IF pc = "sleep" THEN attempt + 1 ELSE attempt
    /\ pc \in {"sleep", "for", "connect"} => ~connected
    /\ (pc = "done" /\ result = "returned" /\ connects > 0) =>
          connects = attempt + 1 /\ backoffs = attempt
    /\ (pc = "done" /\ result = "raised") =>
          connects = max_retries /\ backoffs = max_retries - 1

\* C4 witness: with max_retries >= 3 every attempt but the last failed and the
\* last one completed (for max_retries = 3: attempt 3 after 2 backoffs)
C4_Witness ==
    /\ pc = "done" /\ result = "returned" /\ max_retries >= 3
    /\ ActivateWritten
    /\ connects = max_retries /\ backoffs = max_retries - 1

\* what the last attempt did when it raised e
CauseMatchesTrace(e) ==
    /\ e.msg \in {"connect", "start_notify"} => trace = <<>>
    /\ e.msg = "write" => trace # <<>> /\ trace[Len(trace)].kind = "write"
                                       /\ trace[Len(trace)].res = 0
    /\ e.type = "DfuException" =>
          \E k \in 1..Len(trace) :
             /\ FailedWait(trace[k])
             /\ e.msg = CASE trace[k].data[1] = OP_CODE_START_DFU -> "Start DFU sequence failed"
                          [] trace[k].data[1] = OP_CODE_INIT_DFU_PARAMS -> "Init Packet failed"
                          [] trace[k].data[1] = OP_CODE_RECEIVE_FIRMWARE_IMAGE -> "Upload failed"
                          [] OTHER -> "Validation failed"

\* no attempt of the finished call got as far as the reset
AllAttemptsFailed == pc = "done" /\ max_retries >= 1 /\ ~reset_in_progress

\* C5 as claimed: when every attempt fails perform_update raises a DfuException
\* that carries the cause of the last attempt
C5_ExhaustionRaisesDfuException ==
    AllAttemptsFailed =>
       /\ result = "raised"
       /\ raised.type = "DfuException"
       /\ raised.attempt = max_retries - 1

\* C5 amended: when every attempt fails perform_update raises, and what it
\* raises is the exception of the last attempt itself, unchanged: a
\* DfuException when that attempt failed on a response, the transport's error
\* when it failed on the connection, the subscription, a write or the disconnect
C5_ExhaustionRaisesLastCause ==
    AllAttemptsFailed =>
       /\ result = "raised"
       /\ connects = max_retries
       /\ raised = exc
       /\ raised.attempt = max_retries - 1
       /\ raised.type \in {"DfuException", "BleakError"}
       /\ CauseMatchesTrace(raised)

\* C5 witness: three or more attempts failed and the error of the last one, a
\* failed write, was raised
C5_Witness ==
    /\ pc = "done" /\ result = "raised" /\ max_retries >= 3
    /\ raised.type = "BleakError" /\ raised.msg = "write"
    /\ raised.attempt = max_retries - 1

\* positions j < k hold two control-point writes with none in between
ConsecutiveCp(j, k) ==
    /\ IsCpWrite(trace[j]) /\ IsCpWrite(trace[k])
    /\ \A n \in (j + 1)..(k - 1) : ~IsCpWrite(trace[n])

\* a response wait ended strictly between positions j and k
WaitBetween(j, k) == \E m \in (j + 1)..(k - 1) : trace[m].kind = "wait"

\* C6 as claimed: no control-point command is written while the control-point
\* command written before it has neither received its response nor timed out
C6_NoWriteWhileUnanswered ==
    \A k \in 1..Len(trace) : \A j \in 1..(k - 1) :
       ConsecutiveCp(j, k) => WaitBetween(j, k)

\* the commands whose response the session waits for and that are written but
\* whose wait has not ended yet
Outstanding ==
    {o \in RespOps :
        \E j \in 1..Len(trace) :
           /\ IsCpWrite(trace[j]) /\ trace[j].data[1] = o
           /\ ~\E m \in (j + 1)..Len(trace) : IsWait(trace[m], o)}

\* C6 amended: at most one command whose response the session waits for
\* (START, INIT, RECEIVE_FIRMWARE_IMAGE, VALIDATE) is outstanding at any time,
\* and every wait is for the command written last; the only control-point
\* writes issued with no wait since the previous one are INIT-end right after
\* INIT-begin and RECEIVE_FIRMWARE_IMAGE right after PRN-configure.  (Stated of
\* the newest event: the trace grows one event at a time.)
C6_OneAwaitedCommand ==
    LET k == Len(trace) IN
    k > 0 =>
       /\ Cardinality(Outstanding) <= 1
       /\ trace[k].kind = "wait" =>
             \E j \in 1..(k - 1) :
                /\ IsCpWrite(trace[j]) /\ trace[j].data[1] = trace[k].data[1]
                /\ \A n \in (j + 1)..(k - 1) : ~IsCpWrite(trace[n])
       /\ IsCpWrite(trace[k]) =>
             \A j \in 1..(k - 1) :
                (ConsecutiveCp(j, k) /\ ~WaitBetween(j, k)) =>
                   \/ trace[j].data = <<OP_CODE_INIT_DFU_PARAMS, 0>>
                      /\ trace[k].data = <<OP_CODE_INIT_DFU_PARAMS, 1>>
                   \/ trace[j].data[1] = OP_CODE_PACKET_RECEIPT_NOTIF_REQ
                      /\ trace[k].data = <<OP_CODE_RECEIVE_FIRMWARE_IMAGE>> /\ k = j + 1

\* C6 witness: PRN-configure and the trigger were written back to back, the
\* chunks are out and RECEIVE_FIRMWARE_IMAGE is the one outstanding command
C6_Witness ==
    /\ pc = "wait_image" /\ prn > 0
    /\ Outstanding = {OP_CODE_RECEIVE_FIRMWARE_IMAGE}

\* perform_update raised out of the attempt
AttemptRaised == pc = "aexit" \/ (pc = "done" /\ result = "raised")

\* C7: when the START wait does not return success (error status, wrong
\* opcode or timeout) the next thing the session does is write RESET to the
\* control point, after which the attempt has failed with nothing else done
C7_StartFailureResets ==
    \A k \in 1..Len(trace) :
       (FailedWait(trace[k]) /\ trace[k].data[1] = OP_CODE_START_DFU) =>
          /\ k = Len(trace) => pc = "w_reset"
          /\ k < Len(trace) =>
                /\ Len(trace) = k + 1
                /\ IsWrite(trace[k + 1], "cp", <<6>>)
                /\ AttemptRaised
                /\ pc = "aexit" =>
                      exc = IF trace[k + 1].res = 1
                            THEN DfuException("Start DFU sequence failed")
                            ELSE BleakError("write")

\* C7 witness: a response to another command ended the START wait, RESET was
\* written and the attempt is raising
C7_Witness ==
    /\ pc = "aexit" /\ Len(trace) = 4
    /\ IsWait(trace[3], OP_CODE_START_DFU) /\ trace[3].got = "other"
    /\ trace[4] = WriteEv("cp", <<6>>, TRUE)

\* C8: when the INIT wait does not return success the attempt fails at once
\* and no RESET command is written on that connection
C8_InitFailureNoReset ==
    \A k \in 1..Len(trace) :
       (FailedWait(trace[k]) /\ trace[k].data[1] = OP_CODE_INIT_DFU_PARAMS) =>
          /\ k = Len(trace)
          /\ AttemptRaised
          /\ \A m \in 1..Len(trace) : ~IsWrite(trace[m], "cp", <<6>>)
          /\ pc = "aexit" => exc = DfuException("Init Packet failed")

\* C8 witness: the device answered INIT with an error status and the attempt
\* is raising
C8_Witness ==
    /\ pc = "aexit" /\ trace # <<>>
    /\ IsWait(trace[Len(trace)], OP_CODE_INIT_DFU_PARAMS)
    /\ trace[Len(trace)].got = "echo" /\ trace[Len(trace)].res = 6

\* the opcode awaited at each response wait of perform_update
WaitPcs == {"wait_start", "wait_init", "wait_image", "wait_validate"}
Awaited(p) ==
    CASE p = "wait_start" -> 1
      [] p = "wait_init" -> 2
      [] p = "wait_image" -> 3
      [] OTHER -> 4

\* C9: a response taken from the queue whose echoed opcode is not the awaited
\* one makes the wait return -1 whatever its status byte, and the session
\* takes the failure branch (RESET after START, otherwise the raise)
C9_WrongOpcodeNeverAccepted ==
    [][(/\ pc \in WaitPcs /\ pc' # pc
        /\ response_queue # <<>>
        /\ Head(response_queue)[1] # Awaited(pc))
       => /\ status' = -1
          /\ pc' = IF pc = "wait_start" THEN "w_reset" ELSE "aexit"
          /\ trace'[Len(trace')].got = "other"
          /\ trace'[Len(trace')].res = -1]_vars

\* C9 witness: the VALIDATE wait took a response to another command and the
\* attempt is raising
C9_Witness ==
    /\ pc = "aexit" /\ trace # <<>> /\ status = -1
    /\ IsWait(trace[Len(trace)], OP_CODE_VALIDATE)
    /\ trace[Len(trace)].got = "other"

\* C10: the handler leaves the coroutine where it is; a RESPONSE_CODE frame
\* appends (echoed opcode, status) at the tail of the queue and leaves the
\* receipt event alone, a PACKET_RECEIPT_NOTIF frame sets the event and leaves
\* the queue alone, any other frame changes neither; a response wait takes the
\* head of the queue, so responses are consumed in arrival order
C10_HandlerDispatch ==
    [][/\ \A data \in Frames :
             NotificationHandler(data) =>
                /\ pc' = pc /\ trace' = trace
                /\ (data[1] = 16 /\ Len(data) >= 3) =>
                      /\ response_queue' = response_queue \o <<(<<data[2], data[3]>>)>>
                      /\ pkg_receipt_event' = pkg_receipt_event
                /\ data[1] = 17 =>
                      /\ pkg_receipt_event' = TRUE
                      /\ response_queue' = response_queue
                /\ (data[1] \notin {16, 17} \/ (data[1] = 16 /\ Len(data) < 3)) =>
                      /\ response_queue' = response_queue
                      /\ pkg_receipt_event' = pkg_receipt_event
       /\ (pc \in WaitPcs /\ pc' # pc /\ response_queue # <<>>) =>
             /\ response_queue' = Tail(response_queue)
             /\ status' = 1 =>
                   trace'[Len(trace')].data = <<Awaited(pc)>> \o Head(response_queue)]_vars

\* C10 witness: two different responses are queued in arrival order and a
\* receipt notification has set the event
C10_Witness ==
    /\ Len(response_queue) = 2
    /\ response_queue[1] # response_queue[2]
    /\ pkg_receipt_event
    /\ pc \in WaitPcs

(* ======================= properties of _stream_firmware =================== *)
Ceil(a, b) == (a + b - 1) \div b
\* the successful packet-characteristic writes of the trace, in order
ChunkWrites == SelectSeq(trace, LAMBDA e : IsChunkWrite(e) /\ e.res = 1)
\* the transfer loop has run to its end and _stream_firmware has returned
StreamDone == pc = "wait_image"

\* C11: when the transfer loop has completed for an image of length L with a
\* chunk size c = min(mtu - 3, 244), c is in 1..244, exactly ceil(L / c) chunks
\* were written, every chunk has length c except that the last may be
\* shorter (but not empty), and the chunks in write order concatenate to the
\* image.
C11_ChunkingRoundTrip ==
    StreamDone =>
        \E mtu \in MTUs :
            LET c == ChunkSize(mtu)
                w == ChunkWrites
            IN  /\ c \in 1..MaxChunk
                /\ Len(w) = Ceil(Len(bin_data), c)
                /\ \A k \in 1..Len(w) :
                      /\ Len(w[k].data) \in 1..c
                      /\ k < Len(w) => Len(w[k].data) = c
                /\ Flatten([k \in 1..Len(w) |-> w[k].data]) = bin_data

\* a completed transfer of at least three chunks whose last chunk is shorter
C11_Witness ==
    /\ StreamDone
    /\ Len(ChunkWrites) >= 3
    /\ Len(ChunkWrites[Len(ChunkWrites)].data) < Len(ChunkWrites[1].data)

\* C12: during a transfer bytes_sent never decreases and stays within
\* 0..len(image); it is below len(image) while a chunk remains to be written
\* and equals len(image) when the loop has completed.
C12_BytesSentBounds ==
    /\ [](/\ 0 <= bytes_sent /\ bytes_sent <= Len(bin_data)
          /\ pc = "stream" => bytes_sent < Len(bin_data)
          /\ StreamDone => bytes_sent = Len(bin_data))
    /\ [][InStream(pc) => bytes_sent' >= bytes_sent]_vars

\* a transfer under way: some chunks are written, another one remains
C12_Witness ==
    /\ pc = "stream"
    /\ Len(ChunkWrites) >= 2
    /\ bytes_sent > 0

\* the number of chunks written successfully among the first k events
ChunksBefore(k) == Cardinality({j \in 1..k : IsChunkWrite(trace[j]) /\ trace[j].res = 1})
\* the receipt waits of the trace
ReceiptWaits == SelectSeq(trace, LAMBDA e : e.kind = "prn")

\* C13: with prn = 0 the transfer loop never waits for a receipt; with
\* prn = N > 0 a receipt wait follows exactly every N-th chunk written (the
\* counter restarts after each wait, whether it ended by a receipt or by its
\* timeout), so a completed transfer of K chunks made floor(K / N) waits.
C13_ReceiptEveryNthChunk ==
    /\ \A k \in 1..Len(trace) :
          /\ trace[k].kind = "prn" =>
                /\ prn > 0 /\ k > 1
                /\ IsChunkWrite(trace[k - 1])
                /\ ChunksBefore(k) % prn = 0
          /\ (IsChunkWrite(trace[k]) /\ trace[k].res = 1) =>
                IF prn > 0 /\ ChunksBefore(k) % prn = 0
                THEN IF k < Len(trace) THEN trace[k + 1].kind = "prn" ELSE pc = "prn_wait"
                ELSE IF k < Len(trace) THEN trace[k + 1].kind # "prn" ELSE pc # "prn_wait"
    /\ StreamDone =>
          Len(ReceiptWaits) = IF prn = 0 THEN 0 ELSE Len(ChunkWrites) \div prn

\* a completed transfer with an interval of at least 2 where the number of
\* chunks is not a multiple of the interval and some waits ended by receipt,
\* some by timeout
C13_Witness ==
    /\ StreamDone
    /\ prn >= 2
    /\ Len(ChunkWrites) % prn # 0
    /\ \E j, k \in 1..Len(ReceiptWaits) : ReceiptWaits[j].res = 1 /\ ReceiptWaits[k].res = 0

\* the transfer ended because a chunk write raised
ChunkWriteFailed ==
    /\ pc = "aexit" /\ trace # <<>>
    /\ IsChunkWrite(trace[Len(trace)]) /\ trace[Len(trace)].res = 0

\* C14: a receipt wait, whether it ends by a receipt or by its timeout, hands
\* control back to the loop without raising; and every transfer, whatever
\* receipts arrive or fail to arrive, eventually completes unless a chunk
\* write raises.
C14_TimeoutNeverAborts ==
    /\ [][(pc = "prn_wait" /\ pc' # pc) =>
            (pc' \in {"stream", "wait_image"} /\ exc' = NoExc)]_vars
    /\ <>(StreamDone \/ ChunkWriteFailed)

\* a transfer completed although each of its receipt waits timed out
C14_Witness ==
    /\ StreamDone
    /\ Len(ReceiptWaits) >= 2
    /\ \A k \in 1..Len(ReceiptWaits) : ReceiptWaits[k].res = 0

(* ======================= properties of the progress reports =============== *)
\* perform_update has returned normally after at least one attempt
UpdateSucceeded == pc = "done" /\ result = "returned" /\ connects >= 1

\* C15 as stated: over one perform_update call, retries included, the
\* percentages passed to the progress callback lie in 0..100 and never
\* decrease, and when the update succeeded the last one is 100.
C15_ProgressMonotoneAcrossRetries ==
    /\ \A k \in 1..Len(progress) : progress[k].pct \in 0..100
    /\ \A k \in 2..Len(progress) : progress[k - 1].pct <= progress[k].pct
    /\ UpdateSucceeded => (progress # <<>> /\ progress[Len(progress)].pct = 100)

\* C15 amended: the percentages lie in 0..100; those of one attempt never
\* decrease, while a retry starts again from the percentage of its first
\* chunk; a transfer loop that has run to its end has reported 100 last, and
\* when the update succeeded the last percentage of the call is 100, reported
\* by the attempt that succeeded.
C15_ProgressMonotonePerAttempt ==
    /\ \A k \in 1..Len(progress) : progress[k].pct \in 0..100
    /\ \A k \in 2..Len(progress) :
          \/ progress[k - 1].attempt < progress[k].attempt
          \/ /\ progress[k - 1].attempt = progress[k].attempt
             /\ progress[k - 1].pct <= progress[k].pct
    /\ (progress_callback /\ pc \in {"wait_image", "w_validate", "wait_validate",
                                     "set_reset", "w_activate", "aexit_return"}) =>
          (progress # <<>> /\ progress[Len(progress)] = ProgressEv(100))
    /\ (progress_callback /\ UpdateSucceeded) =>
          (progress # <<>> /\ progress[Len(progress)] = ProgressEv(100))

\* the update succeeded at its second attempt, after a first attempt that had
\* reported 100 and a second that started again below 100
C15_Witness ==
    /\ UpdateSucceeded
    /\ attempt = 1
    /\ \E k \in 2..Len(progress) :
          /\ progress[k - 1] = [attempt |-> 0, pct |-> 100]
          /\ progress[k].attempt = 1 /\ progress[k].pct < 100

(* ================== properties of perform_update, continued =============== *)
\* the PRN-configure command: opcode 0x08 and the interval as 16-bit little endian
PrnCmd == <<8, prn % 256, (prn \div 256) % 256>>
ReceiveCmd == <<OP_CODE_RECEIVE_FIRMWARE_IMAGE>>

\* C16: a PRN-configure command (0x08 and the interval, little endian) is
\* written only when prn > 0, directly after the successful INIT response and,
\* once written, directly before the RECEIVE trigger; with prn = 0 the RECEIVE
\* trigger follows the successful INIT response with nothing in between.
C16_PrnConfigureIffEnabled ==
    \A k \in 1..Len(trace) :
        /\ (IsCpWrite(trace[k]) /\ trace[k].data[1] = OP_CODE_PACKET_RECEIPT_NOTIF_REQ) =>
              /\ prn > 0
              /\ trace[k].data = PrnCmd
              /\ k > 1 /\ GoodWait(trace[k - 1], OP_CODE_INIT_DFU_PARAMS)
              /\ trace[k].res = 1 =>
                    IF k < Len(trace)
                    THEN IsWrite(trace[k + 1], "cp", ReceiveCmd)
                    ELSE pc = "w_receive"
        /\ IsWrite(trace[k], "cp", ReceiveCmd) =>
              /\ k > 1
              /\ IF prn > 0
                 THEN /\ IsWrite(trace[k - 1], "cp", PrnCmd) /\ trace[k - 1].res = 1
                      /\ k > 2 /\ GoodWait(trace[k - 2], OP_CODE_INIT_DFU_PARAMS)
                 ELSE GoodWait(trace[k - 1], OP_CODE_INIT_DFU_PARAMS)

\* with prn > 0 the RECEIVE trigger has been written after the PRN-configure command
C16_Witness ==
    /\ prn > 0
    /\ \E k \in 2..Len(trace) :
          /\ IsWrite(trace[k], "cp", ReceiveCmd) /\ trace[k].res = 1
          /\ IsWrite(trace[k - 1], "cp", PrnCmd)

\* the message of the DfuException raised when the wait for `op` fails
FailureMsg(op) ==
    CASE op = OP_CODE_START_DFU -> "Start DFU sequence failed"
      [] op = OP_CODE_INIT_DFU_PARAMS -> "Init Packet failed"
      [] op = OP_CODE_RECEIVE_FIRMWARE_IMAGE -> "Upload failed"
      [] op = OP_CODE_VALIDATE -> "Validation failed"
\* the wait ended by its timeout
TimedOut(ev) == ev.kind = "wait" /\ ev.got = "none"
\* the exception in flight once the attempt has left its connection
Propagating == {DfuException(FailureMsg(op)) : op \in RespOps} \cup {BleakError("disconnect")}

\* C17: a response wait that ends by its timeout fails the attempt exactly as
\* one that took a non-success (or wrong-opcode) response to the same command:
\* after START the RESET command is written and nothing else, after
\* INIT, RECEIVE or VALIDATE nothing is written; the attempt raises the
\* DfuException of that command, and the retry loop then backs off or raises
\* by the attempt number alone.
C17_TimeoutSameFailurePath ==
    /\ [](\A k \in 1..Len(trace) :
            FailedWait(trace[k]) =>
                LET op == trace[k].data[1]
                IN  IF op = OP_CODE_START_DFU /\ k < Len(trace)
                    THEN /\ k + 1 = Len(trace)
                         /\ IsCpWrite(trace[k + 1]) /\ trace[k + 1].data = ResetCmd
                         /\ pc \in {"aexit", "done"}
                         /\ trace[k + 1].res = 1 =>
                               exc \in {DfuException(FailureMsg(op)), BleakError("disconnect")}
                    ELSE IF op = OP_CODE_START_DFU
                    THEN pc = "w_reset"
                    ELSE /\ k = Len(trace)
                         /\ pc \in {"aexit", "done"}
                         /\ exc \in {DfuException(FailureMsg(op)), BleakError("disconnect")})
    /\ [][(pc = "aexit" /\ pc' # pc /\ exc \in Propagating /\ ~reset_in_progress) =>
            IF attempt < max_retries - 1
            THEN pc' = "sleep" /\ backoffs' = backoffs + 1 /\ result' = "none"
            ELSE pc' = "done" /\ result' = "raised"]_vars

\* the START wait timed out, RESET was written, the attempt is failing with
\* "Start DFU sequence failed"
C17_Witness ==
    /\ pc = "aexit" /\ Len(trace) >= 2
    /\ TimedOut(trace[Len(trace) - 1])
    /\ trace[Len(trace) - 1].data[1] = OP_CODE_START_DFU
    /\ IsWrite(trace[Len(trace)], "cp", ResetCmd)
    /\ exc = DfuException("Start DFU sequence failed")

(* ========================= properties of cancellation ===================== *)
\* C18: once a cancellation has been delivered at a suspension point of
\* perform_update, all that remains is the disconnect of the open connection:
\* the call ends with the cancellation and the connection closed, no further
\* connection or backoff is made, and the call never returns normally nor
\* raises another exception, whether or not reset_in_progress is set.
C18_CancellationEndsCall ==
    /\ [](cancel_requested =>
            /\ pc \in {"aexit", "done"}
            /\ pc = "done" => (result = "cancelled" /\ ~connected))
    /\ [][cancel_requested => (connects' = connects /\ backoffs' = backoffs)]_vars

(* ===================== properties of bootloader discovery ================= *)
InScan(d, scan) == \E k \in 1..Len(scan) : scan[k] = d

\* the device found is one of the scan that meets the highest-priority
\* criterion any device of the scan meets: address, then name, then service
PriorityPick(e) ==
    IF \E k \in 1..Len(e.scan) : AddressMatches(e.scan[k], e.query)
    THEN InScan(e.found, e.scan) /\ AddressMatches(e.found, e.query)
    ELSE IF \E k \in 1..Len(e.scan) : NameMatches(e.scan[k], e.query)
    THEN InScan(e.found, e.scan) /\ NameMatches(e.found, e.query)
    ELSE IF \E k \in 1..Len(e.scan) : UuidMatches(e.scan[k], e.uuid)
    THEN InScan(e.found, e.scan) /\ UuidMatches(e.found, e.uuid)
    ELSE e.found = NoDevice

\* C19: the primary search for the bootloader returns, of the devices its
\* scan reported, one matching by address if there is any, otherwise one
\* matching by advertised name if there is any, otherwise one advertising the
\* service UUID, whatever the order of the scan result; and no device when
\* none matches.
C19_PriorityOverWholeScan ==
    searches # <<>> => PriorityPick(searches[1])

LastTwo(str) == SubSeq(str, Len(str) - 1, Len(str))
AllButLastTwo(str) == SubSeq(str, 1, Len(str) - 2)
NothingFound == \A k \in 1..Len(searches) : searches[k].found = NoDevice

\* C20: the front end searches at most twice, first for the name DFU with the
\* DFU service; the second search is made only after the first found nothing,
\* and for the address that equals the application's in every character but
\* the last byte, which is the application's plus one modulo 256 (FF gives 00,
\* the fifth byte stays); when no search found a device the front end fails
\* with its could-not-locate error and perform_update is not invoked, and
\* perform_update is invoked only on a device a search found.
C20_FallbackCandidate ==
    /\ Len(searches) <= 2
    /\ searches # <<>> => searches[1].query = DfuName
    /\ Len(searches) = 2 =>
          /\ searches[1].found = NoDevice
          /\ Len(searches[2].query) = Len(app_address)
          /\ AllButLastTwo(searches[2].query) = AllButLastTwo(app_address)
          /\ IntHex(LastTwo(searches[2].query)) = (IntHex(LastTwo(app_address)) + 1) % 256
          /\ Upper(LastTwo(app_address)) = <<"F", "F">> =>
                LastTwo(searches[2].query) = <<"0", "0">>
    /\ (loc_pc \in {"failed", "update"} /\ NothingFound) =>
          /\ loc_pc = "failed"
          /\ loc_error = CouldNotLocate(front)
    /\ loc_pc = "failed" => (NothingFound /\ ~update_invoked)
    /\ update_invoked =>
          /\ loc_pc = "update"
          /\ bootloader_device # NoDevice
          /\ bootloader_device = searches[Len(searches)].found

\* the application address ends in FF, the primary search found nothing, the
\* fallback found the device at ...:EE:00 and the update was invoked on it
C20_Witness ==
    /\ update_invoked
    /\ Len(searches) = 2
    /\ app_address = Mac(<<"E", "E">>, <<"F", "F">>)
    /\ bootloader_device.address = Mac(<<"E", "E">>, <<"0", "0">>)

(* =========================== properties of parse_zip ====================== *)
\* the archive has a manifest.json
HasManifest(z) == HasEntry(z, ManifestName)
\* a JSON object without, or with, the key
Lacks(val, key) == val.t = "dict" /\ key \notin DOMAIN val.v
Has(val, key) == val.t = "dict" /\ key \in DOMAIN val.v

\* the manifest lacks the manifest object, its application object, or one of
\* the two file-name fields of the application object
LacksRequiredField(z) ==
    /\ HasManifest(z)
    /\ LET m == EntryNamed(z, ManifestName).json IN
       \/ Lacks(m, "manifest")
       \/ /\ Has(m, "manifest")
          /\ \/ Lacks(m.v["manifest"], "application")
             \/ /\ Has(m.v["manifest"], "application")
                /\ \/ Lacks(m.v["manifest"].v["application"], "bin_file")
                   \/ Lacks(m.v["manifest"].v["application"], "dat_file")

\* C21: parsing an archive whose manifest lacks the manifest object, the
\* application object or one of the file-name fields raises DfuException and
\* leaves the image and the init data unset
C21_MalformedManifestFails ==
    (parse_result # "none" /\ LacksRequiredField(zip_file)) =>
        /\ parse_result = "DfuException"
        /\ bin_data = Unset
        /\ dat_data = Unset

\* the names of the archive that match the legacy pattern for the suffix
LegacyMatches(z, suffix) == {k \in 1..Len(z) : LegacyMatch(z[k].name, suffix)}

\* C22: parsing an archive without manifest returns only when exactly one
\* entry matches the image pattern and exactly one the init-data pattern, and
\* raises DfuException when either kind has no or more than one matching entry
C22_LegacyExactlyOne ==
    (parse_result # "none" /\ ~HasManifest(zip_file)) =>
        IF /\ Cardinality(LegacyMatches(zip_file, BinSuffix)) = 1
           /\ Cardinality(LegacyMatches(zip_file, DatSuffix)) = 1
        THEN parse_result = "returned"
        ELSE parse_result = "DfuException"

\* C23: once parse_zip has returned, the image and the init data are non-empty
\* byte sequences
C23_ParsedNonEmpty ==
    parse_result = "returned" =>
        /\ bin_data # Unset /\ bin_data # <<>>
        /\ dat_data # Unset /\ dat_data # <<>>

\* the image and the init data are assigned by parse_zip only
PackageNeverReassigned == [][parse_result = "returned" => UNCHANGED <<bin_data, dat_data>>]_vars

(* ======================== properties of the timeouts ====================== *)
\* the step is a response wait for op: it appends the wait to the trace
WaitStep(op) ==
    /\ Len(trace') = Len(trace) + 1
    /\ trace'[Len(trace')].kind = "wait"
    /\ trace'[Len(trace')].data[1] = op

\* C24 as stated: every response wait has a timeout: 30 s for the START
\* response, 60 s for the INIT and the VALIDATE response, and a size-scaled one
\* of at least 60 s for the image-received response
C24_TimeoutsAsStated ==
    [][/\ (WaitStep(OP_CODE_START_DFU) => wait_timeout' = 30000)
       /\ (WaitStep(OP_CODE_INIT_DFU_PARAMS) => wait_timeout' = 60000)
       /\ (WaitStep(OP_CODE_VALIDATE) => wait_timeout' = 60000)
       /\ (WaitStep(OP_CODE_RECEIVE_FIRMWARE_IMAGE) => wait_timeout' >= 60000)]_vars

\* C24 amended: every response wait has a timeout: 60 s for the START response,
\* 30 s for the INIT and the VALIDATE response, and for the image-received
\* response the larger of 60 s and one second per 50000 bytes of the image
C24_TimeoutsInCode ==
    [][/\ (WaitStep(OP_CODE_START_DFU) => wait_timeout' = 60000)
       /\ (WaitStep(OP_CODE_INIT_DFU_PARAMS) => wait_timeout' = 30000)
       /\ (WaitStep(OP_CODE_VALIDATE) => wait_timeout' = 30000)
       /\ (WaitStep(OP_CODE_RECEIVE_FIRMWARE_IMAGE) =>
             /\ wait_timeout' >= 60000
             /\ 50 * wait_timeout' + 49 >= Len(bin_data)
             /\ (wait_timeout' = 60000 \/ 50 * wait_timeout' <= Len(bin_data)))
       /\ \A op \in RespOps : WaitStep(op) => wait_timeout' > 0]_vars

\* C24 witness: an attempt has gone through all four waits, the last one, for
\* the VALIDATE response, with the default timeout
C24_Witness ==
    /\ \E a, b, c \in 1..Len(trace) :
          /\ a < b /\ b < c
          /\ IsWait(trace[a], OP_CODE_START_DFU)
          /\ IsWait(trace[b], OP_CODE_INIT_DFU_PARAMS)
          /\ IsWait(trace[c], OP_CODE_RECEIVE_FIRMWARE_IMAGE)
    /\ IsWait(trace[Len(trace)], OP_CODE_VALIDATE)
    /\ wait_timeout = DefaultTimeout

(* =================== properties of the outcome of the call ================ *)
\* C25: perform_update returns normally only if an attempt of the call took a
\* successful VALIDATE response and set reset_in_progress, and never without
\* having opened a connection, whatever max_retries is
C25_ReturnOnlyAfterValidate ==
    (pc = "done" /\ result = "returned") =>
        /\ connects >= 1
        /\ reset_in_progress
        /\ \E k \in 1..Len(trace) : GoodWait(trace[k], OP_CODE_VALIDATE)

\* the attempt issued the ACTIVATE_AND_RESET write (completed or failed)
ActivateIssued == \E k \in 1..Len(trace) : IsWrite(trace[k], "cp", ActivateCmd)

\* C26: reset_in_progress is set before the ACTIVATE_AND_RESET write is issued;
\* once it is set, the attempt only writes ACTIVATE_AND_RESET and leaves the
\* connection, every exception of the attempt (the write failing, the
\* disconnect raising) ends the call with a normal return, and no further
\* connection or backoff follows
C26_ResetFlagTurnsErrorsIntoSuccess ==
    /\ [](/\ (ActivateIssued \/ pc = "w_activate") => reset_in_progress
          /\ reset_in_progress =>
                /\ pc \in {"w_activate", "aexit", "aexit_return", "done"}
                /\ pc = "done" => result = "returned"
                /\ raised = NoExc)
    /\ [][reset_in_progress =>
             /\ reset_in_progress'
             /\ connects' = connects
             /\ backoffs' = backoffs
             /\ attempt' = attempt]_vars

\* C26 witness: the ACTIVATE_AND_RESET write failed, so the command never
\* reached the device, and the call returned normally
C26_Witness ==
    /\ pc = "done" /\ result = "returned"
    /\ reset_in_progress
    /\ IsWrite(trace[Len(trace)], "cp", ActivateCmd)
    /\ trace[Len(trace)].res = 0
    /\ exc.type = "BleakError"

(* ================== properties of the queue and the jump ================= *)
\* the attempt is past the drain of the queue that follows its subscription
PastDrain ==
    /\ connected /\ subscribed
    /\ pc \notin {"jump_write", "jump_aexit", "drain"}

\* C27: past the drain of an attempt, every queued response was delivered on
\* the connection of that attempt, and a response wait never takes a response
\* that the connection of jump_to_bootloader or of an earlier attempt delivered
C27_StaleResponsesNeverConsumed ==
    /\ [](PastDrain =>
             \A k \in 1..Len(queue_conn) : queue_conn[k] = connects)
    /\ [][(pc \in WaitPcs /\ response_queue # <<>> /\ response_queue' = Tail(response_queue)) =>
             queue_conn[1] = connects]_vars
    /\ [](Len(queue_conn) = Len(response_queue))

\* C27 witness: the second attempt has subscribed and is about to drain a
\* queue that still holds a response delivered during jump_to_bootloader
C27_Witness ==
    /\ pc = "drain"
    /\ connects = 2
    /\ jump_result = "returned"
    /\ response_queue # <<>>
    /\ queue_conn[1] = 0
    /\ response_queue[1] = <<OP_CODE_START_DFU, 1>>

\* C28: the step that enters a receipt wait leaves the receipt signal cleared,
\* whatever it was; during the wait the signal changes only by a notification
\* being delivered; and the wait ends early exactly when the signal is set at
\* its end, by timeout otherwise
C28_ReceiptClearedBeforeWait ==
    /\ [][(pc = "stream" /\ pc' = "prn_wait") => ~pkg_receipt_event']_vars
    /\ [][(pc = "prn_wait" /\ pkg_receipt_event' # pkg_receipt_event) =>
             /\ pkg_receipt_event' /\ pc' = "prn_wait"
             /\ UNCHANGED <<trace, streamv>>]_vars
    /\ [][(pc = "prn_wait" /\ pc' # "prn_wait" /\ pc' # "aexit") =>
             /\ trace' = Append(trace, PrnEv(pkg_receipt_event))
             /\ (trace'[Len(trace')].res = 0) = ~pkg_receipt_event]_vars

\* C28 witness: a receipt notification arrived while the chunks of the window
\* were being written, and the chunk that completes the window is next
C28_Witness ==
    /\ pc = "stream"
    /\ pkg_receipt_event
    /\ prn >= 2
    /\ packets_since_prn + 1 = prn
    /\ link = "up"

JumpPcs == {"jump_notify", "jump_write", "jump_aexit"}

\* C29: jump_to_bootloader never raises: every way it ends (the connection
\* refused, the subscription or the write failing, the link dropping, the
\* disconnect raising) is a normal return with the connection closed
C29_JumpAlwaysReturns ==
    /\ [](jump_result # "raised")
    /\ [][((pc \in JumpPcs \/ (pc = "idle" /\ jump_result = "none")) /\ pc' \notin JumpPcs
            /\ pc' # "for") =>
             /\ jump_result' = "returned"
             /\ pc' = "idle"
             /\ ~connected']_vars

\* C29 witness: the jump returned although the link had dropped and the write
\* of the jump command failed
C29_Witness ==
    /\ jump_result = "returned"
    /\ pc = "idle"
    /\ link = "dropped"
    /\ trace = <<WriteEv("cp", <<OP_CODE_ENTER_BOOTLOADER, UPLOAD_MODE_APPLICATION>>, FALSE)>>

(* ======================== termination and connections ===================== *)
\* C30: with max_retries >= 1 and every await ending, perform_update
\* eventually returns or raises; it enters at most max_retries connections, a
\* new one only when the previous one has been left, and no connection is open
\* during the backoff sleep or once the call is over
C30_TerminatesWithOneConnection ==
    /\ (max_retries >= 1) => <>(pc = "done" /\ result \in {"returned", "raised"})
    /\ [](max_retries >= 1 => connects <= max_retries /\ attempt < max_retries)
    /\ [](pc \in {"idle", "for", "connect", "sleep", "done"} => ~connected /\ link # "up")
    /\ [][connects' # connects => (connects' = connects + 1 /\ ~connected)]_vars

\* C30 witness: the call is over after max_retries attempts, the last of which
\* was connected, with every connection left
C30_Witness ==
    /\ pc = "done" /\ result = "raised"
    /\ max_retries >= 2
    /\ connects = max_retries
    /\ backoffs = max_retries - 1
    /\ trace # <<>>
    /\ ~connected

====
